---- MODULE Spec2Model ----
(***************************************************************************)
(* Realtime sync of ponder: the single-consumer queue worker               *)
(* (createRealtimeSync.start), handleBlock, handleReorg, the poller        *)
(* (enqueue), kill, and the checkpoints buildEvents gives a block's events.*)
(* Every await of the source is a position of the worker or of the poller, *)
(* so the two interleave exactly where the code can be suspended.          *)
(***************************************************************************)
EXTENDS Integers, Sequences, FiniteSets, TLC

\* ------------------------------------------------------------------ bounds
\* Highest block number of the remote block tree: two above
\* MAX_QUEUED_BLOCKS, so that more blocks can be missing than the gap-fill
\* may fetch at once.
MaxNum == 27
\* Highest block number the remote reports as its latest in the runs of Spec.
MaxTip == 2
\* Injected failures (RPC errors, failed consistency checks, a failing sink)
\* in the runs of Spec.
MaxFaults == 2
\* Injected failures in the runs of SpecErr, which follow the error count to
\* the end of ERROR_TIMEOUT twice.
MaxFaultsErr == 28
\* Largest finalityBlockCount the network configuration takes in Spec.
MaxFinality == 2
\* Items the poller lets wait in the queue while the worker is suspended.
MaxQueue == 2
\* Injected failures in the runs of SpecKill: as many as ERROR_TIMEOUT has
\* entries, so that the error count can reach its end.
MaxFaultsKill == 14
\* Highest block number of the blocks the filter predicates are called with
\* in the runs of SpecFilter; the bounds of the filters lie below it.
MaxBlockNumber == 4
\* Largest number of sources buildEvents and handleBlock are given in the
\* runs of SpecEvents.
MaxSources == 2
\* Highest block number the remote reports as its latest in the runs of
\* SpecDeep: one above MaxFinality, so that a reorg can keep unfinalized
\* blocks.
MaxDeepTip == 3
\* Largest number of items the polls add to the queue in the runs of
\* SpecQueue: above MAX_QUEUED_BLOCKS, so that the polls of a suspended
\* worker can fill the queue past it.
MaxPolls == 27
\* Largest block timestamp of the checkpoints the sync gateway is given.
MaxTimestamp == 2

\* ------------------------------------------------------- program constants
ERROR_TIMEOUT == <<1, 2, 5, 10, 30, 60, 60, 60, 60, 60, 60, 60, 60, 60>>
MAX_QUEUED_BLOCKS == 25

\* ------------------------------------------------------ remote block tree
\* A block is named by its hash. Two blocks exist at every height 1..MaxNum:
\* fork "a" (even hash) and fork "b" (odd hash); hash 0 is the block the
\* sync starts from (syncProgress.finalized).
NoBlock == 0 - 1
GenesisParent == 0 - 2
Blocks == {0} \cup (2 .. (2 * MaxNum + 1))

Num(h) == h \div 2
IsForkB(h) == h % 2 = 1

\* parentHash: fork a continues fork a; fork b leaves fork a at every odd
\* height and continues itself at every even height.
ParentHash(h) ==
  IF h = 0 THEN GenesisParent
  ELSE IF IsForkB(h) /\ Num(h) % 2 = 0 THEN 2 * (Num(h) - 1) + 1
  ELSE 2 * (Num(h) - 1)

\* timestamp: a child is younger than its parent, the b sibling is younger
\* than the a sibling.
Timestamp(h) == 10 * Num(h) + (IF IsForkB(h) THEN 1 ELSE 0)

RECURSIVE AncestorOf(_, _)
\* The block numbered n on the chain that ends in h, by walking the parents.
AncestorOf(h, n) == IF Num(h) <= n THEN h ELSE AncestorOf(ParentHash(h), n)

\* The same as a table, computed once.
Ancestors == [h \in Blocks |-> [n \in 0 .. MaxNum |-> AncestorOf(h, n)]]

\* The block numbered n on the chain that ends in h (eth_getBlockByNumber
\* answered by a node whose canonical head is h).
AncestorAt(h, n) == Ancestors[h][n]

\* ---------------------------------------------------------------- sources
\* Two factories (address, eventSelector); a log is (address, topic0, child,
\* transactionIndex, logIndex).
FactoryEvent == 7
OrdinaryEvent == 8
ChainId == 1
Factories == {"F1", "F2"}
FactoryAddress(f) == IF f = "F1" THEN 100 ELSE 200
FactoryEventSelector(f) == FactoryEvent

Log(address, topic0, child, ti, li) ==
  [address |-> address, topic0 |-> topic0, child |-> child,
   transactionIndex |-> ti, logIndex |-> li]

\* eth_getLogs for block h: blocks of odd height announce child Num(h) through
\* F1 (both siblings announce the same child), their b sibling also through
\* F2; the b blocks of even height announce child Num(h) - 1 again; from
\* height 2 on a child contract announced earlier emits an ordinary log.
BlockLogs(h) ==
  (IF h # 0 /\ Num(h) % 2 = 1
     THEN {Log(FactoryAddress("F1"), FactoryEvent, Num(h), 0, 0)} ELSE {})
  \cup (IF Num(h) % 2 = 1 /\ IsForkB(h)
     THEN {Log(FactoryAddress("F2"), FactoryEvent, Num(h), 0, 1)} ELSE {})
  \cup (IF h # 0 /\ Num(h) % 2 = 0 /\ IsForkB(h)
     THEN {Log(FactoryAddress("F1"), FactoryEvent, Num(h) - 1, 0, 0)} ELSE {})
  \cup (IF Num(h) >= 2
     THEN {Log(IF Num(h) % 2 = 0 THEN Num(h) - 1 ELSE Num(h) - 2,
               OrdinaryEvent, 0, 1, 2)} ELSE {})

isLogFactoryMatched(filter, log) ==
  /\ log.address = FactoryAddress(filter)
  /\ log.topic0 = FactoryEventSelector(filter)

getChildAddress(log, factory) == log.child

\* fetchBlockEventData's factoryLogs: the logs some factory matches.
FactoryLogs(h) ==
  {log \in BlockLogs(h) : \E f \in Factories : isLogFactoryMatched(f, log)}

\* The child addresses a set of logs announces for a factory.
ChildAddresses(logs, f) ==
  {getChildAddress(log, f) : log \in {l \in logs : isLogFactoryMatched(f, l)}}

\* ---------------------------------------------------------- filter engine
\* A value that is not there (undefined).
Undefined == 0 - 1

\* Addresses and hex strings as the RPC and the configuration write them;
\* toLowerCase maps a string to its lowercase form.
HexValues == {"0xa", "0xA", "0xb"}

\* A variant of toLowerCase that leaves its argument as it is; C25 is
\* checked against it to show that it rests on the candidate being lowercased.
keepCase(v) == v

toLowerCase(v) ==
  CASE v = "0xA" -> "0xa"
    [] v = "0xB" -> "0xb"
    [] OTHER -> v

\* A value an event does not have (undefined; null for transaction.to).
Missing == "undefined"

\* A filter constraint: absent (null or undefined), a single value, a list
\* of values, or a reference to a factory (addresses only).
Absent == [kind |-> "absent", values |-> <<>>]
Single(v) == [kind |-> "single", values |-> <<v>>]
List(vs) == [kind |-> "list", values |-> vs]
FactoryReference == [kind |-> "factory", values |-> <<>>]

isAddressFactory(address) == address.kind = "factory"

\* A variant of isValueMatched that takes an empty list for an absent
\* constraint; C27 is checked against it to show that it rests on the empty
\* list matching nothing.
isValueMatchedOrEmpty(filterValue, eventValue) ==
  IF filterValue.kind = "absent" THEN TRUE
  ELSE IF filterValue.kind = "list" /\ filterValue.values = <<>> THEN TRUE
  ELSE IF eventValue = Missing THEN FALSE
  ELSE \E i \in 1 .. Len(filterValue.values) :
         filterValue.values[i] = toLowerCase(eventValue)

isValueMatched(filterValue, eventValue) ==
  IF filterValue.kind = "absent" THEN TRUE
  ELSE IF eventValue = Missing THEN FALSE
  ELSE IF /\ filterValue.kind = "list"
          /\ \E i \in 1 .. Len(filterValue.values) :
               filterValue.values[i] = toLowerCase(eventValue)
    THEN TRUE
  ELSE IF /\ filterValue.kind = "single"
          /\ filterValue.values[1] = toLowerCase(eventValue)
    THEN TRUE
  ELSE FALSE

\* A variant of the range check whose upper bound is exclusive; C26 is
\* checked against it to show that it rests on the comparison with toBlock.
isBelowToBlock(filter, number) ==
  ~ \/ number < (IF filter.fromBlock = Undefined THEN 0 ELSE filter.fromBlock)
    \/ filter.toBlock # Undefined /\ number >= filter.toBlock

\* "Return `false` for out of range blocks", negated: fromBlock ?? 0 and
\* toBlock ?? Number.POSITIVE_INFINITY.
isInRange(filter, number) ==
  ~ \/ number < (IF filter.fromBlock = Undefined THEN 0 ELSE filter.fromBlock)
    \/ filter.toBlock # Undefined /\ number > filter.toBlock

\* The i-th topic of a log (0-based), Missing beyond its topics.
Topic(log, i) == IF i < Len(log.topics) THEN log.topics[i + 1] ELSE Missing

isLogFilterMatchedFor(filter, number, log) ==
  IF ~isInRange(filter, number) THEN FALSE
  ELSE IF ~isValueMatched(filter.topic0, Topic(log, 0)) THEN FALSE
  ELSE IF ~isValueMatched(filter.topic1, Topic(log, 1)) THEN FALSE
  ELSE IF ~isValueMatched(filter.topic2, Topic(log, 2)) THEN FALSE
  ELSE IF ~isValueMatched(filter.topic3, Topic(log, 3)) THEN FALSE
  ELSE IF /\ ~isAddressFactory(filter.address)
          /\ ~isValueMatched(filter.address, log.address)
    THEN FALSE
  ELSE TRUE

\* The three places that keep a log for a log filter: fetchBlockEventData
\* ("Remove logs that don't match a filter"), handleBlock (the same,
\* "accounting for factory addresses", on the lowercased address of the log)
\* and buildEvents (on the address of the log as it is).
isLogKeptByFetchBlockEventData(filter, number, log) ==
  isLogFilterMatchedFor(filter, number, log)

isLogKeptByHandleBlock(filter, number, log, finalized, unfinalized) ==
  /\ isLogFilterMatchedFor(filter, number, log)
  /\ IF isAddressFactory(filter.address)
       THEN \/ toLowerCase(log.address) \in finalized
            \/ toLowerCase(log.address) \in unfinalized
       ELSE TRUE

isLogKeptByBuildEvents(filter, number, log, finalized, unfinalized) ==
  /\ isLogFilterMatchedFor(filter, number, log)
  /\ IF isAddressFactory(filter.address)
       THEN log.address \in finalized \/ log.address \in unfinalized
       ELSE TRUE

\* `transaction.to &&`: the toAddress test is made only for a transaction
\* that has a `to`.
isTransactionFilterMatched(filter, number, transaction) ==
  IF ~isInRange(filter, number) THEN FALSE
  ELSE IF /\ ~isAddressFactory(filter.fromAddress)
          /\ ~isValueMatched(filter.fromAddress, transaction.from)
    THEN FALSE
  ELSE IF /\ ~isAddressFactory(filter.toAddress)
          /\ transaction.to # Missing
          /\ ~isValueMatched(filter.toAddress, transaction.to)
    THEN FALSE
  ELSE TRUE

\* trace.input.slice(0, 10) is the trace's selector.
isTraceFilterMatched(filter, number, trace) ==
  IF ~isInRange(filter, number) THEN FALSE
  ELSE IF /\ ~isAddressFactory(filter.fromAddress)
          /\ ~isValueMatched(filter.fromAddress, trace.from)
    THEN FALSE
  ELSE IF /\ ~isAddressFactory(filter.toAddress)
          /\ ~isValueMatched(filter.toAddress, trace.to)
    THEN FALSE
  ELSE IF filter.callType # trace.type THEN FALSE
  ELSE IF ~isValueMatched(filter.functionSelector, trace.selector) THEN FALSE
  ELSE TRUE

\* trace.value is Undefined when the trace has none, else its amount.
isTransferFilterMatched(filter, number, trace) ==
  IF ~isInRange(filter, number) THEN FALSE
  ELSE IF trace.value = Undefined \/ trace.value = 0 THEN FALSE
  ELSE IF /\ ~isAddressFactory(filter.fromAddress)
          /\ ~isValueMatched(filter.fromAddress, trace.from)
    THEN FALSE
  ELSE IF /\ ~isAddressFactory(filter.toAddress)
          /\ ~isValueMatched(filter.toAddress, trace.to)
    THEN FALSE
  ELSE TRUE

isBlockFilterMatchedFor(filter, number) ==
  IF ~isInRange(filter, number) THEN FALSE
  ELSE (number - filter.offset) % filter.interval = 0

\* No call of a filter predicate.
NoCall == [fn |-> "none"]

\* --------------------------------------------------------------- the state
VARIABLES
  finalityBlockCount,         \* args.network.finalityBlockCount
  tips,                       \* the blocks the remote may report as latest
  isKilled,
  finalizedBlock,
  finalizedChildAddresses,
  unfinalizedChildAddresses,
  factoryLogsPerBlock,
  unfinalizedBlocks,
  queue,                      \* pending items of the queue, by block hash
  consecutiveErrors,
  worker,                     \* the queue worker's position and locals
  poller,                     \* the position and locals of enqueue()
  faultsLeft,                 \* failures the environment may still inject
  fatalErrors,                \* number of onFatalError calls made
  step,                       \* the operation that produced this state
  emitted,                    \* the onEvent call made by that operation
  lastBlockEvent,             \* the latest block event handed to the sink
  eventsSince,                \* the types of the events handed over after it
  history,                    \* what a specification records of the run
  call,                       \* the filter predicate called, with its result
  gateway                     \* the SyncGateway: its fields, its emissions

vars == <<finalityBlockCount, tips, isKilled, finalizedBlock,
          finalizedChildAddresses, unfinalizedChildAddresses,
          factoryLogsPerBlock, unfinalizedBlocks, queue, consecutiveErrors,
          worker, poller, faultsLeft, fatalErrors, step, emitted,
          lastBlockEvent, eventsSince, history, call, gateway>>

\* ------------------------------------------------------------ checkpoints
\* maxCheckpoint.transactionIndex and the ranks of EVENT_TYPES.
MaxTransactionIndex == 9999
EventTypeBlocks == 1
EventTypeTransactions == 2
EventTypeLogs == 3
EventTypeTraces == 4

Checkpoint(blockTimestamp, chainId, blockNumber, transactionIndex, eventType, eventIndex) ==
  <<blockTimestamp, chainId, blockNumber, transactionIndex, eventType,
    eventIndex>>

RECURSIVE LexLess(_, _, _)
LexLess(a, b, i) ==
  IF i > Len(a) THEN FALSE
  ELSE IF a[i] # b[i] THEN a[i] < b[i]
  ELSE LexLess(a, b, i + 1)

\* a.checkpoint < b.checkpoint on the encoded strings: the fields compare in
\* decreasing significance.
CheckpointLess(a, b) == LexLess(a, b, 1)

\* ------------------------------------------------------------ sync gateway
\* The registered networks by chain id, and the gateway's checkpoints
\* (blockTimestamp, chainId, blockNumber); a block's number is its timestamp.
Chains == {1, 2}
zeroCheckpoint == <<0, 0, 0>>
GatewayCheckpoint(chainId, blockTimestamp) ==
  <<blockTimestamp, chainId, blockTimestamp>>

isCheckpointGreaterThan(a, b) == LexLess(b, a, 1)

checkpointMin(checkpoints) ==
  CHOOSE c \in checkpoints :
    \A d \in checkpoints : ~isCheckpointGreaterThan(c, d)

checkpointMax(checkpoints) ==
  CHOOSE c \in checkpoints :
    \A d \in checkpoints : ~isCheckpointGreaterThan(d, c)

NewNetworkCheckpoints ==
  [isHistoricalSyncComplete |-> FALSE, historicalCheckpoint |-> zeroCheckpoint,
   realtimeCheckpoint |-> zeroCheckpoint,
   finalityCheckpoint |-> zeroCheckpoint]

\* No "newCheckpoint" emission.
NoEmission == <<>>

\* The gateway after its constructor. newCheckpoint is the value emitted as
\* "newCheckpoint" by the latest call (NoEmission: none), previous the value
\* emitted before that, resetSince whether resetCheckpoints was called after
\* previous was emitted.
InitGateway ==
  [checkpoint |-> zeroCheckpoint, finalityCheckpoint |-> zeroCheckpoint,
   networkCheckpoints |-> [c \in Chains |-> NewNetworkCheckpoints],
   historicalSyncCompletedAt |-> Undefined, newCheckpoint |-> NoEmission,
   previous |-> NoEmission, resetSince |-> FALSE]

\* The gateway at the start of a call: the emission of the call before
\* becomes the previous one.
AtCall(g) ==
  IF g.newCheckpoint = NoEmission THEN g
  ELSE [g EXCEPT !.previous = g.newCheckpoint, !.resetSince = FALSE,
                 !.newCheckpoint = NoEmission]

\* The checkpoint at which the events of a network are available.
availableCheckpoint(n) ==
  IF n.isHistoricalSyncComplete
    THEN checkpointMax({n.historicalCheckpoint, n.realtimeCheckpoint})
    ELSE n.historicalCheckpoint

minimumAvailableCheckpoint(g) ==
  checkpointMin({availableCheckpoint(g.networkCheckpoints[c]) : c \in Chains})

\* A variant of recalculateCheckpoint that takes the new minimum whenever it
\* differs; C40 is checked against it to show that it rests on the gateway
\* moving its checkpoint upwards only.
recalculateCheckpointEitherWay(g) ==
  LET newCheckpoint == minimumAvailableCheckpoint(g)
  IN IF newCheckpoint # g.checkpoint
       THEN [g EXCEPT !.checkpoint = newCheckpoint,
                      !.newCheckpoint = newCheckpoint]
       ELSE g

recalculateCheckpoint(g) ==
  LET newCheckpoint == minimumAvailableCheckpoint(g)
  IN IF isCheckpointGreaterThan(newCheckpoint, g.checkpoint)
       THEN [g EXCEPT !.checkpoint = newCheckpoint,
                      !.newCheckpoint = newCheckpoint]
       ELSE g

handleNewHistoricalCheckpoint(g, checkpoint) ==
  recalculateCheckpoint(
    [g EXCEPT !.networkCheckpoints[checkpoint[2]].historicalCheckpoint =
                checkpoint])

handleHistoricalSyncComplete(g, chainId) ==
  LET after ==
        recalculateCheckpoint(
          [g EXCEPT !.networkCheckpoints[chainId].isHistoricalSyncComplete =
                      TRUE])
      maxHistoricalCheckpoint ==
        checkpointMax({after.networkCheckpoints[c].historicalCheckpoint :
                         c \in Chains})
  IN IF \A c \in Chains : after.networkCheckpoints[c].isHistoricalSyncComplete
       THEN [after EXCEPT
               !.historicalSyncCompletedAt = maxHistoricalCheckpoint[1]]
       ELSE after

handleNewRealtimeCheckpoint(g, checkpoint) ==
  recalculateCheckpoint(
    [g EXCEPT !.networkCheckpoints[checkpoint[2]].realtimeCheckpoint =
                checkpoint])

resetCheckpoints(g, chainId) ==
  [g EXCEPT !.checkpoint = zeroCheckpoint,
            !.finalityCheckpoint = zeroCheckpoint,
            !.historicalSyncCompletedAt = 0,
            !.networkCheckpoints[chainId] = NewNetworkCheckpoints,
            !.resetSince = TRUE]

\* The sources: a log filter whose address is the factory F1 and whose topic0
\* is OrdinaryEvent, and a block filter with interval 1 and offset 0.
isLogFilterMatched(log) == log.topic0 = OrdinaryEvent

isBlockFilterMatched(h) == (Num(h) - 0) % 1 = 0

\* A variant of buildEvents that leaves the block's timestamp and number out
\* of the checkpoints; C3 is checked against it to show that the order of the
\* checkpoints comes from them.
buildEventsWithoutBlockPosition(h, finalizedChildren, unfinalizedChildren) ==
  {Checkpoint(0, ChainId, 0, log.transactionIndex, EventTypeLogs,
              log.logIndex) :
     log \in {l \in BlockLogs(h) :
                /\ isLogFilterMatched(l)
                /\ \/ l.address \in finalizedChildren["F1"]
                   \/ l.address \in unfinalizedChildren["F1"]}}
  \cup (IF isBlockFilterMatched(h)
          THEN {Checkpoint(0, ChainId, 0, MaxTransactionIndex,
                           EventTypeBlocks, 0)}
          ELSE {})

\* The checkpoints of the events buildEvents makes of block h with the child
\* addresses known when the block event is delivered.
buildEvents(h, finalizedChildren, unfinalizedChildren) ==
  {Checkpoint(Timestamp(h), ChainId, Num(h), log.transactionIndex,
              EventTypeLogs, log.logIndex) :
     log \in {l \in BlockLogs(h) :
                /\ isLogFilterMatched(l)
                /\ \/ l.address \in finalizedChildren["F1"]
                   \/ l.address \in unfinalizedChildren["F1"]}}
  \cup (IF isBlockFilterMatched(h)
          THEN {Checkpoint(Timestamp(h), ChainId, Num(h), MaxTransactionIndex,
                           EventTypeBlocks, 0)}
          ELSE {})

\* ------------------------------------------------------------------ events
\* An onEvent call: the event, and with it the block event handed over before
\* it (previous) and the types of the events handed over in between (since).
NoEvent ==
  [type |-> "none", block |-> NoBlock, reorgedBlocks |-> <<>>,
   checkpoints |-> {}, previous |-> NoBlock, previousCheckpoints |-> {},
   since |-> {}]

Event(type, h, reorged, cps) ==
  [type |-> type, block |-> h, reorgedBlocks |-> reorged, checkpoints |-> cps,
   previous |-> lastBlockEvent.block,
   previousCheckpoints |-> lastBlockEvent.checkpoints,
   since |-> eventsSince]

BlockEvent(h, cps) == Event("block", h, <<>>, cps)

FinalizeEvent(h) == Event("finalize", h, <<>>, {})

ReorgEvent(h, reorged) == Event("reorg", h, reorged, {})

Off == 0 - 1

ItemDone ==
  {"WorkerDuplicate", "WorkerReorgDone", "WorkerGapFetched",
   "WorkerIngestDone", "WorkerFinalizeDone"}

\* The operations that follow the return of the onEvent call of a block event
\* (handleBlock goes on after its await at the block event).
BlockEventAccepted == {"WorkerIngestDone", "WorkerFinalize"}

\* history.failStreak: the worker items that ended in a caught error since the
\* last item that ended without one; history.reorgSeen: a reorg event was
\* handed to the sink; history.accepted: the blocks whose block event the sink
\* accepted. A specification that does not record them starts them Off
\* ({Off} for the set).
Recorded(name, ev) ==
  [failStreak |->
     IF history.failStreak = Off THEN Off
     ELSE IF name = "WorkerBackoffDone" THEN history.failStreak + 1
     ELSE IF name \in ItemDone THEN 0
     ELSE history.failStreak,
   reorgSeen |->
     IF history.reorgSeen = Off THEN Off
     ELSE IF ev.type = "reorg" THEN 1
     ELSE history.reorgSeen,
   accepted |->
     IF Off \in history.accepted THEN {Off}
     ELSE IF name \in BlockEventAccepted
       THEN history.accepted \cup {worker.block}
     ELSE history.accepted]

\* The operation `name` calls args.onEvent(ev) (ev = NoEvent: no call).
OnEvent(name, ev) ==
  /\ step' = name
  /\ emitted' = ev
  /\ lastBlockEvent' =
       IF ev.type = "block"
         THEN [NoEvent EXCEPT !.type = "block", !.block = ev.block,
                              !.checkpoints = ev.checkpoints]
         ELSE lastBlockEvent
  /\ eventsSince' = IF ev.type = "block" THEN {}
                    ELSE IF ev.type = "none" THEN eventsSince
                    ELSE eventsSince \cup {ev.type}
  /\ history' = Recorded(name, ev)

\* ----------------------------------------------------------------- helpers
SeqToSet(s) == {s[i] : i \in 1 .. Len(s)}

Min(a, b) == IF a < b THEN a ELSE b

\* range(start, stop) of utils/range: start .. stop - 1.
Range(start, stop) == start .. (stop - 1)

getLatestUnfinalizedBlock ==
  IF Len(unfinalizedBlocks) = 0 THEN finalizedBlock
  ELSE unfinalizedBlocks[Len(unfinalizedBlocks)]

\* The "recompute unfinalizedChildAddresses" loops of handleBlock and
\* handleReorg, over the unfinalized blocks ub.
RecomputeUnfinalizedChildAddresses(ub) ==
  [f \in Factories |->
     UNION {ChildAddresses(factoryLogsPerBlock[h], f) : h \in SeqToSet(ub)}]

\* fetchBlockEventData's recording of the factory logs of the blocks in S. The
\* map's value is kept as the set of the logs pushed: a log pushed again by a
\* second fetch of the same block is not counted twice.
RecordFactoryLogs(S) ==
  [h \in Blocks |->
     IF h \in S THEN factoryLogsPerBlock[h] \cup FactoryLogs(h)
     ELSE factoryLogsPerBlock[h]]

\* factoryLogsPerBlock.delete(hash) for the blocks in S.
DeleteFactoryLogs(S) ==
  [h \in Blocks |-> IF h \in S THEN {} ELSE factoryLogsPerBlock[h]]

\* The worker's position and locals; localChain is the local chain
\* (finalizedBlock, then unfinalizedBlocks) as it was when handleReorg was
\* called.
IdleWorker ==
  [pc |-> "idle", block |-> NoBlock, latestBlock |-> NoBlock,
   remoteBlock |-> NoBlock, reorgedBlocks |-> <<>>, error |-> "none",
   duration |-> 0, localChain |-> <<>>]

IdlePoller == [pc |-> "idle", block |-> NoBlock]

EnvUnchanged == UNCHANGED <<finalityBlockCount, tips, call, gateway>>

\* ------------------------------------------------------------------- Init
InitState ==
  /\ isKilled = FALSE
  /\ finalizedBlock = 0
  /\ finalizedChildAddresses = [f \in Factories |-> {}]
  /\ unfinalizedChildAddresses = [f \in Factories |-> {}]
  /\ factoryLogsPerBlock = [h \in Blocks |-> {}]
  /\ unfinalizedBlocks = <<>>
  /\ queue = <<>>
  /\ consecutiveErrors = 0
  /\ worker = IdleWorker
  /\ poller = IdlePoller
  /\ fatalErrors = 0
  /\ step = "start"
  /\ emitted = NoEvent
  /\ lastBlockEvent = NoEvent
  /\ eventsSince = {}
  /\ call = NoCall
  /\ gateway = InitGateway

Init ==
  /\ InitState
  /\ finalityBlockCount \in 1 .. MaxFinality
  /\ tips = {b \in Blocks : Num(b) <= MaxTip}
  /\ faultsLeft = MaxFaults
  /\ history = [failStreak |-> Off, reorgSeen |-> Off, accepted |-> {Off}]

\* ------------------------------------------------------------------ poller
\* Variants of the worker's checks: a duplicate check that never matches and
\* a parent check that never fails; C10 and C1 are checked against them to
\* show that they rest on the checks.
isNeverAlreadySynced(b) == FALSE

isNeverParentMismatch(b) == FALSE

\* The worker's case distinction on its item b, in the order of the code.
isAlreadySynced(b) == getLatestUnfinalizedBlock = b

isNumberNotIncreased(b) == Num(getLatestUnfinalizedBlock) >= Num(b)

isBlocksMissing(b) == Num(getLatestUnfinalizedBlock) + 1 < Num(b)

isParentMismatch(b) == ParentHash(b) # getLatestUnfinalizedBlock

\* A variant of the queue that starts its worker on a waiting item while an
\* earlier item is still being processed; C21 is checked against it to show
\* that it rests on the queue's concurrency.
isWorkerAlwaysFree == TRUE

\* createQueue({concurrency: 1}): the worker runs on one item at a time.
isWorkerFree == worker.pc = "idle"

\* The queue starts its worker on a waiting item as soon as the worker is
\* free: nothing else runs in between.
WorkerReady == ~isKilled /\ isWorkerFree /\ Len(queue) > 0

\* setInterval(enqueue) fires (kill() clears the interval) and
\* eth_getBlockByNumber("latest") answers with the head already known ("We
\* already saw and handled this block").
PollDuplicate ==
  /\ ~isKilled
  /\ ~WorkerReady
  /\ poller.pc = "idle"
  /\ \E b \in tips : isAlreadySynced(b)
  /\ OnEvent("PollDuplicate", NoEvent)
  /\ EnvUnchanged
  /\ UNCHANGED <<isKilled, finalizedBlock, finalizedChildAddresses,
                 unfinalizedChildAddresses, factoryLogsPerBlock,
                 unfinalizedBlocks, queue, consecutiveErrors, worker, poller,
                 faultsLeft, fatalErrors>>

\* setInterval(enqueue) fires and the latest block is new; fetchBlockEventData
\* starts and waits for eth_getLogs. The runs are cut where the queue holds
\* `bound` items.
PollLatestUpTo(bound) ==
  /\ ~isKilled
  /\ ~WorkerReady
  /\ Len(queue) < bound
  /\ poller.pc = "idle"
  /\ \E b \in tips :
       /\ ~isAlreadySynced(b)
       /\ poller' = [pc |-> "fetchLogs", block |-> b]
  /\ EnvUnchanged
  /\ UNCHANGED <<isKilled, finalizedBlock, finalizedChildAddresses,
                 unfinalizedChildAddresses, factoryLogsPerBlock,
                 unfinalizedBlocks, queue, consecutiveErrors, worker,
                 faultsLeft, fatalErrors>>

PollLatest ==
  /\ PollLatestUpTo(MaxQueue)
  /\ OnEvent("PollLatest", NoEvent)

\* The same in the runs that follow the queue's length: the polls go on until
\* the queue holds MaxPolls items.
PollLatestBehind ==
  /\ PollLatestUpTo(MaxPolls)
  /\ OnEvent("PollLatest", NoEvent)

\* fetchBlockEventData: the logs arrived and passed the checks; the factory
\* logs are recorded in factoryLogsPerBlock; the receipts are awaited.
PollFetchLogs ==
  /\ ~WorkerReady
  /\ poller.pc = "fetchLogs"
  /\ factoryLogsPerBlock' = RecordFactoryLogs({poller.block})
  /\ poller' = [poller EXCEPT !.pc = "fetchReceipts"]
  /\ OnEvent("PollFetchLogs", NoEvent)
  /\ EnvUnchanged
  /\ UNCHANGED <<isKilled, finalizedBlock, finalizedChildAddresses,
                 unfinalizedChildAddresses, unfinalizedBlocks, queue,
                 consecutiveErrors, worker, faultsLeft, fatalErrors>>

\* enqueue: fetchBlockEventData returned; the error count is reset and the
\* item is added to the queue.
PollEnqueue ==
  /\ ~WorkerReady
  /\ poller.pc = "fetchReceipts"
  /\ consecutiveErrors' = 0
  /\ queue' = Append(queue, poller.block)
  /\ poller' = IdlePoller
  /\ OnEvent("PollEnqueue", NoEvent)
  /\ EnvUnchanged
  /\ UNCHANGED <<isKilled, finalizedBlock, finalizedChildAddresses,
                 unfinalizedChildAddresses, factoryLogsPerBlock,
                 unfinalizedBlocks, worker, faultsLeft, fatalErrors>>

\* enqueue's catch: an RPC call of the poll failed or a consistency check of
\* fetchBlockEventData threw.
PollFail ==
  /\ ~WorkerReady
  /\ \/ poller.pc \in {"fetchLogs", "fetchReceipts"}
     \/ poller.pc = "idle" /\ ~isKilled
  /\ faultsLeft > 0
  /\ faultsLeft' = faultsLeft - 1
  /\ poller' = IdlePoller
  /\ IF isKilled
       THEN UNCHANGED <<consecutiveErrors, fatalErrors>>
       ELSE /\ consecutiveErrors' = consecutiveErrors + 1
            /\ fatalErrors' =
                 IF consecutiveErrors + 1 = Len(ERROR_TIMEOUT)
                   THEN fatalErrors + 1 ELSE fatalErrors
  /\ OnEvent("PollFail", NoEvent)
  /\ EnvUnchanged
  /\ UNCHANGED <<isKilled, finalizedBlock, finalizedChildAddresses,
                 unfinalizedChildAddresses, factoryLogsPerBlock,
                 unfinalizedBlocks, queue, worker>>

\* ------------------------------------------------------------------ worker
\* The worker's catch block up to its wait: nothing when killed, else the
\* backoff delay is looked up and the wait starts.
WorkerCatch(b, kind) ==
  worker' =
    IF isKilled THEN IdleWorker
    ELSE [IdleWorker EXCEPT
            !.pc = "backoff", !.block = b, !.error = kind,
            !.duration = IF consecutiveErrors < Len(ERROR_TIMEOUT)
                           THEN ERROR_TIMEOUT[consecutiveErrors + 1]
                           ELSE Undefined]

\* The queue hands the worker its next item.
Takes(b) ==
  /\ ~isKilled
  /\ isWorkerFree
  /\ Len(queue) > 0
  /\ b = Head(queue)

\* worker: "We already saw and handled this block. No-op."
WorkerDuplicate ==
  /\ \E b \in Blocks :
       /\ Takes(b)
       /\ isAlreadySynced(b)
  /\ queue' = Tail(queue)
  /\ OnEvent("WorkerDuplicate", NoEvent)
  /\ EnvUnchanged
  /\ UNCHANGED <<isKilled, finalizedBlock, finalizedChildAddresses,
                 unfinalizedChildAddresses, factoryLogsPerBlock,
                 unfinalizedBlocks, consecutiveErrors, worker, poller,
                 faultsLeft, fatalErrors>>

\* handleReorg's while loop from its top to its next await, for the item b,
\* the pruned local chain ub, the remote block being fitted, the blocks
\* removed so far and the local chain as handleReorg found it.
ReorgLoop(name, b, ub, remoteBlock, reorgedBlocks, localChain) ==
  LET parentBlock == IF Len(ub) = 0 THEN finalizedBlock ELSE ub[Len(ub)]
  IN /\ unfinalizedBlocks' = ub
     /\ IF parentBlock = ParentHash(remoteBlock)
          THEN /\ worker' = [IdleWorker EXCEPT
                               !.pc = "reorgEvent", !.block = b,
                               !.remoteBlock = remoteBlock,
                               !.reorgedBlocks = reorgedBlocks,
                               !.localChain = localChain]
               /\ OnEvent(name, ReorgEvent(parentBlock, reorgedBlocks))
          ELSE IF Len(ub) = 0
            THEN /\ WorkerCatch(b, "unrecoverable")
                 /\ OnEvent(name, NoEvent)
            ELSE /\ worker' = [IdleWorker EXCEPT
                                 !.pc = "reorgWalk", !.block = b,
                                 !.remoteBlock = remoteBlock,
                                 !.reorgedBlocks = reorgedBlocks,
                                 !.localChain = localChain]
                 /\ OnEvent(name, NoEvent)

\* A variant of initialReorgedBlocks that leaves out the local block numbered
\* like the incoming one; C12 is checked against it to show that it rests on
\* the recording of the removed blocks.
reorgedBlocksAboveOnly(b) ==
  LET IsReorged(lb) == Num(lb) > Num(b)
  IN SelectSeq(unfinalizedBlocks, IsReorged)

\* handleReorg: the blocks recorded as removed from the local chain and the
\* local chain pruned of them, for the incoming block b.
initialReorgedBlocks(b) ==
  LET IsReorged(lb) == Num(lb) >= Num(b)
  IN SelectSeq(unfinalizedBlocks, IsReorged)

prunedUnfinalizedBlocks(b) ==
  LET IsKept(lb) == Num(lb) < Num(b)
  IN SelectSeq(unfinalizedBlocks, IsKept)

\* worker: the block number has not increased, or the block is the next one
\* and its parentHash is not the head's hash: handleReorg starts.
WorkerReorg ==
  /\ \E b \in Blocks :
       /\ Takes(b)
       /\ ~isAlreadySynced(b)
       /\ \/ isNumberNotIncreased(b)
          \/ /\ ~isBlocksMissing(b)
             /\ isParentMismatch(b)
       /\ ReorgLoop("WorkerReorg", b, prunedUnfinalizedBlocks(b), b,
                    initialReorgedBlocks(b),
                    <<finalizedBlock>> \o unfinalizedBlocks)
  /\ queue' = Tail(queue)
  /\ EnvUnchanged
  /\ UNCHANGED <<isKilled, finalizedBlock, finalizedChildAddresses,
                 unfinalizedChildAddresses, factoryLogsPerBlock,
                 consecutiveErrors, poller, faultsLeft, fatalErrors>>

\* handleReorg: eth_getBlockByHash returned the remote parent; the local tip
\* is popped into reorgedBlocks and the loop goes on.
WorkerReorgWalk ==
  /\ worker.pc = "reorgWalk"
  /\ ReorgLoop("WorkerReorgWalk", worker.block,
               SubSeq(unfinalizedBlocks, 1, Len(unfinalizedBlocks) - 1),
               ParentHash(worker.remoteBlock),
               Append(worker.reorgedBlocks,
                      unfinalizedBlocks[Len(unfinalizedBlocks)]),
               worker.localChain)
  /\ EnvUnchanged
  /\ UNCHANGED <<isKilled, finalizedBlock, finalizedChildAddresses,
                 unfinalizedChildAddresses, factoryLogsPerBlock, queue,
                 consecutiveErrors, poller, faultsLeft, fatalErrors>>

\* handleReorg after the reorg event was accepted: the unfinalized child
\* addresses are recomputed, the reorged blocks' factory logs deleted; the
\* worker then clears the queue.
WorkerReorgDone ==
  /\ worker.pc = "reorgEvent"
  /\ unfinalizedChildAddresses' =
       RecomputeUnfinalizedChildAddresses(unfinalizedBlocks)
  /\ factoryLogsPerBlock' = DeleteFactoryLogs(SeqToSet(worker.reorgedBlocks))
  /\ queue' = <<>>
  /\ worker' = IdleWorker
  /\ OnEvent("WorkerReorgDone", NoEvent)
  /\ EnvUnchanged
  /\ UNCHANGED <<isKilled, finalizedBlock, finalizedChildAddresses,
                 unfinalizedBlocks, consecutiveErrors, poller, faultsLeft,
                 fatalErrors>>

\* worker: blocks are missing; they are requested by number.
WorkerGap ==
  /\ \E b \in Blocks :
       /\ Takes(b)
       /\ ~isAlreadySynced(b)
       /\ ~isNumberNotIncreased(b)
       /\ isBlocksMissing(b)
       /\ worker' = [IdleWorker EXCEPT
                       !.pc = "gapFetch", !.block = b,
                       !.latestBlock = getLatestUnfinalizedBlock]
  /\ queue' = Tail(queue)
  /\ OnEvent("WorkerGap", NoEvent)
  /\ EnvUnchanged
  /\ UNCHANGED <<isKilled, finalizedBlock, finalizedChildAddresses,
                 unfinalizedChildAddresses, factoryLogsPerBlock,
                 unfinalizedBlocks, consecutiveErrors, poller, faultsLeft,
                 fatalErrors>>

\* A variant of missingBlockRange without the limit; C14 is checked against
\* it to show that it rests on MAX_QUEUED_BLOCKS.
missingBlockRangeUnlimited ==
  Range(Num(worker.latestBlock) + 1, Num(worker.block))

\* A variant of missingBlockRange that requests no block; C39 is checked
\* against it to show that the progress rests on every gap-fill fetching
\* blocks.
missingBlockRangeEmpty == Range(Num(worker.latestBlock) + 1, 0)

\* The numbers of the missing blocks the gap-fill requests.
missingBlockRange ==
  Range(Num(worker.latestBlock) + 1,
        Min(Num(worker.block), Num(worker.latestBlock) + MAX_QUEUED_BLOCKS))

\* The blocks a node whose canonical head is t answers the gap-fill with, in
\* ascending order.
pendingBlocks(t) ==
  [i \in 1 .. Cardinality(missingBlockRange) |->
     AncestorAt(t, Num(worker.latestBlock) + i)]

\* worker: every missing block and its event data arrived; the queue is
\* cleared and refilled with them and the triggering block.
WorkerGapFetched ==
  /\ worker.pc = "gapFetch"
  /\ \E t \in tips :
       /\ Num(t) >= Num(worker.latestBlock) + Cardinality(missingBlockRange)
       /\ factoryLogsPerBlock' = RecordFactoryLogs(SeqToSet(pendingBlocks(t)))
       /\ IF isKilled THEN UNCHANGED queue
          ELSE queue' = Append(pendingBlocks(t), worker.block)
  /\ worker' = IdleWorker
  /\ OnEvent("WorkerGapFetched", NoEvent)
  /\ EnvUnchanged
  /\ UNCHANGED <<isKilled, finalizedBlock, finalizedChildAddresses,
                 unfinalizedChildAddresses, unfinalizedBlocks,
                 consecutiveErrors, poller, faultsLeft, fatalErrors>>

\* worker: one request of the gap-fill failed; the fetches that got as far as
\* recording their factory logs (the set S) have recorded them.
WorkerGapFail ==
  /\ worker.pc = "gapFetch"
  /\ faultsLeft > 0
  /\ faultsLeft' = faultsLeft - 1
  /\ \E t \in tips :
       /\ Num(t) >= Num(worker.latestBlock) + Cardinality(missingBlockRange)
       /\ \E S \in SUBSET SeqToSet(pendingBlocks(t)) :
            factoryLogsPerBlock' = RecordFactoryLogs(S)
  /\ WorkerCatch(worker.block, "rpc")
  /\ OnEvent("WorkerGapFail", NoEvent)
  /\ EnvUnchanged
  /\ UNCHANGED <<isKilled, finalizedBlock, finalizedChildAddresses,
                 unfinalizedChildAddresses, unfinalizedBlocks, queue,
                 consecutiveErrors, poller, fatalErrors>>

\* handleReorg: eth_getBlockByHash failed.
WorkerReorgWalkFail ==
  /\ worker.pc = "reorgWalk"
  /\ faultsLeft > 0
  /\ faultsLeft' = faultsLeft - 1
  /\ WorkerCatch(worker.block, "rpc")
  /\ OnEvent("WorkerReorgWalkFail", NoEvent)
  /\ EnvUnchanged
  /\ UNCHANGED <<isKilled, finalizedBlock, finalizedChildAddresses,
                 unfinalizedChildAddresses, factoryLogsPerBlock,
                 unfinalizedBlocks, queue, consecutiveErrors, poller,
                 fatalErrors>>

\* A variant of push that appends nothing; C15 is checked against it to show
\* that it rests on handleBlock's push.
pushNothing(ub, b) == ub

\* unfinalizedBlocks.push(syncBlockToLightBlock(block)).
push(ub, b) == Append(ub, b)

\* worker, happy path: handleBlock from its start to its await of the block
\* event: the block's factory children are added, the block is appended and
\* the block event is handed to the sink.
WorkerIngest ==
  /\ \E b \in Blocks :
       /\ Takes(b)
       /\ ~isAlreadySynced(b)
       /\ ~isNumberNotIncreased(b)
       /\ ~isBlocksMissing(b)
       /\ ~isParentMismatch(b)
       /\ LET children ==
                [f \in Factories |->
                   unfinalizedChildAddresses[f]
                     \cup ChildAddresses(FactoryLogs(b), f)]
          IN /\ unfinalizedChildAddresses' = children
             /\ unfinalizedBlocks' = push(unfinalizedBlocks, b)
             /\ worker' = [IdleWorker EXCEPT !.pc = "blockEvent", !.block = b]
             /\ OnEvent("WorkerIngest",
                        BlockEvent(b, buildEvents(b, finalizedChildAddresses,
                                                  children)))
  /\ queue' = Tail(queue)
  /\ EnvUnchanged
  /\ UNCHANGED <<isKilled, finalizedBlock, finalizedChildAddresses,
                 factoryLogsPerBlock, consecutiveErrors, poller, faultsLeft,
                 fatalErrors>>

\* A variant of blockMovesFinality that waits for three times the
\* finalityBlockCount; C11 is checked against it to show that it rests on
\* the threshold.
blockMovesFinalityLate ==
  Num(worker.block) >= Num(finalizedBlock) + 3 * finalityBlockCount

blockMovesFinality ==
  Num(worker.block) >= Num(finalizedBlock) + 2 * finalityBlockCount

\* handleBlock after the block event was accepted, no finalization: the
\* worker resets the error count.
WorkerIngestDone ==
  /\ worker.pc = "blockEvent"
  /\ ~blockMovesFinality
  /\ consecutiveErrors' = 0
  /\ worker' = IdleWorker
  /\ OnEvent("WorkerIngestDone", NoEvent)
  /\ EnvUnchanged
  /\ UNCHANGED <<isKilled, finalizedBlock, finalizedChildAddresses,
                 unfinalizedChildAddresses, factoryLogsPerBlock,
                 unfinalizedBlocks, queue, poller, faultsLeft, fatalErrors>>

\* A variant of blocksAbove that keeps the finalized blocks in
\* unfinalizedBlocks; C23 is checked against it to show that the bound comes
\* from the finalization dropping them.
blocksAboveOrBelow(pendingFinalizedBlock) == unfinalizedBlocks

\* handleBlock: the unfinalized blocks the finalization keeps, those above
\* the pending finalized block.
blocksAbove(pendingFinalizedBlock) ==
  LET IsKept(lb) == Num(lb) > Num(pendingFinalizedBlock)
  IN SelectSeq(unfinalizedBlocks, IsKept)

\* A variant of promoteChildAddresses that keeps only the children of the
\* newly finalized blocks; C17 is checked against it to show that it rests on
\* the promotion adding to the set.
promoteReplacingChildAddresses(finalizedBlocks) ==
  [f \in Factories |->
     UNION {ChildAddresses(factoryLogsPerBlock[h], f) :
              h \in SeqToSet(finalizedBlocks)}]

\* handleBlock: "add child address from newly finalized blocks to
\* finalizedChildAddresses".
promoteChildAddresses(finalizedBlocks) ==
  [f \in Factories |->
     finalizedChildAddresses[f] \cup
       UNION {ChildAddresses(factoryLogsPerBlock[h], f) :
                h \in SeqToSet(finalizedBlocks)}]

\* handleBlock after the block event was accepted, the block moves finality:
\* the list is split, the children of the finalized blocks promoted, the
\* unfinalized children recomputed, and the finalize event handed to the sink.
WorkerFinalize ==
  /\ worker.pc = "blockEvent"
  /\ blockMovesFinality
  /\ \E k \in 1 .. Len(unfinalizedBlocks) :
       /\ Num(unfinalizedBlocks[k]) = Num(worker.block) - finalityBlockCount
       /\ \A j \in 1 .. (k - 1) :
            Num(unfinalizedBlocks[j]) # Num(worker.block) - finalityBlockCount
       /\ LET pendingFinalizedBlock == unfinalizedBlocks[k]
              IsFinalized(lb) == Num(lb) <= Num(pendingFinalizedBlock)
              finalizedBlocks == SelectSeq(unfinalizedBlocks, IsFinalized)
              kept == blocksAbove(pendingFinalizedBlock)
          IN /\ unfinalizedBlocks' = kept
             /\ finalizedChildAddresses' =
                  promoteChildAddresses(finalizedBlocks)
             /\ unfinalizedChildAddresses' =
                  RecomputeUnfinalizedChildAddresses(kept)
             /\ factoryLogsPerBlock' =
                  DeleteFactoryLogs(SeqToSet(finalizedBlocks))
             /\ finalizedBlock' = pendingFinalizedBlock
             /\ OnEvent("WorkerFinalize", FinalizeEvent(pendingFinalizedBlock))
  /\ worker' = [worker EXCEPT !.pc = "finalizeEvent"]
  /\ EnvUnchanged
  /\ UNCHANGED <<isKilled, queue, consecutiveErrors, poller, faultsLeft,
                 fatalErrors>>

\* handleBlock returned after the finalize event was accepted: the worker
\* resets the error count.
WorkerFinalizeDone ==
  /\ worker.pc = "finalizeEvent"
  /\ consecutiveErrors' = 0
  /\ worker' = IdleWorker
  /\ OnEvent("WorkerFinalizeDone", NoEvent)
  /\ EnvUnchanged
  /\ UNCHANGED <<isKilled, finalizedBlock, finalizedChildAddresses,
                 unfinalizedChildAddresses, factoryLogsPerBlock,
                 unfinalizedBlocks, queue, poller, faultsLeft, fatalErrors>>

\* The sink rejects the event it was handed (args.onEvent throws).
WorkerSinkFail ==
  /\ worker.pc \in {"blockEvent", "finalizeEvent", "reorgEvent"}
  /\ faultsLeft > 0
  /\ faultsLeft' = faultsLeft - 1
  /\ WorkerCatch(worker.block, "sink")
  /\ OnEvent("WorkerSinkFail", NoEvent)
  /\ EnvUnchanged
  /\ UNCHANGED <<isKilled, finalizedBlock, finalizedChildAddresses,
                 unfinalizedChildAddresses, factoryLogsPerBlock,
                 unfinalizedBlocks, queue, consecutiveErrors, poller,
                 fatalErrors>>

\* The worker's catch block after its wait: the queue is cleared, the error
\* count incremented, and onFatalError called when it reaches the length of
\* ERROR_TIMEOUT.
WorkerBackoffDone ==
  /\ worker.pc = "backoff"
  /\ queue' = <<>>
  /\ consecutiveErrors' = consecutiveErrors + 1
  /\ fatalErrors' = IF consecutiveErrors + 1 = Len(ERROR_TIMEOUT)
                      THEN fatalErrors + 1 ELSE fatalErrors
  /\ worker' = IdleWorker
  /\ OnEvent("WorkerBackoffDone", NoEvent)
  /\ EnvUnchanged
  /\ UNCHANGED <<isKilled, finalizedBlock, finalizedChildAddresses,
                 unfinalizedChildAddresses, factoryLogsPerBlock,
                 unfinalizedBlocks, poller, faultsLeft>>

\* kill(): the interval is cleared, the queue paused and cleared.
Kill ==
  /\ ~isKilled
  /\ ~WorkerReady
  /\ isKilled' = TRUE
  /\ queue' = <<>>
  /\ OnEvent("Kill", NoEvent)
  /\ EnvUnchanged
  /\ UNCHANGED <<finalizedBlock, finalizedChildAddresses,
                 unfinalizedChildAddresses, factoryLogsPerBlock,
                 unfinalizedBlocks, consecutiveErrors, worker, poller,
                 faultsLeft, fatalErrors>>

Next ==
  \/ PollDuplicate
  \/ PollLatest
  \/ PollFetchLogs
  \/ PollEnqueue
  \/ PollFail
  \/ WorkerDuplicate
  \/ WorkerReorg
  \/ WorkerReorgWalk
  \/ WorkerReorgWalkFail
  \/ WorkerReorgDone
  \/ WorkerGap
  \/ WorkerGapFetched
  \/ WorkerGapFail
  \/ WorkerIngest
  \/ WorkerIngestDone
  \/ WorkerFinalize
  \/ WorkerFinalizeDone
  \/ WorkerSinkFail
  \/ WorkerBackoffDone
  \/ Kill

Spec == Init /\ [][Next]_vars

\* ------------------------------------------------ runs that follow the errors
\* The remote's head stays at the fork-a block numbered MaxTip, the instance
\* is not killed, and the environment may inject MaxFaultsErr failures; the
\* run records the worker's streak of failed items. No reorg can start in
\* these runs, so handleReorg's steps are not among them.
InitErr ==
  /\ InitState
  /\ finalityBlockCount = 1
  /\ tips = {b \in Blocks : Num(b) = MaxTip /\ ~IsForkB(b)}
  /\ faultsLeft = MaxFaultsErr
  /\ history = [failStreak |-> 0, reorgSeen |-> Off, accepted |-> {Off}]

NextErr ==
  \/ PollDuplicate
  \/ PollLatest
  \/ PollFetchLogs
  \/ PollEnqueue
  \/ PollFail
  \/ WorkerDuplicate
  \/ WorkerGap
  \/ WorkerGapFetched
  \/ WorkerGapFail
  \/ WorkerIngest
  \/ WorkerIngestDone
  \/ WorkerFinalize
  \/ WorkerFinalizeDone
  \/ WorkerSinkFail
  \/ WorkerBackoffDone

SpecErr == InitErr /\ [][NextErr]_vars

\* ------------------------------------------------- runs without a failure
\* No request fails, the sink accepts every event and the instance is not
\* killed; the remote reports any block numbered 1 .. MaxTip as its latest,
\* so that every reorg is at most MaxTip = finalityBlockCount deep and no
\* block moves finality. The run records whether a reorg event was emitted.
InitNoFault ==
  /\ InitState
  /\ finalityBlockCount = MaxFinality
  /\ tips = {b \in Blocks : Num(b) >= 1 /\ Num(b) <= MaxTip}
  /\ faultsLeft = 0
  /\ history = [failStreak |-> Off, reorgSeen |-> 0, accepted |-> {Off}]

NextNoFault ==
  \/ PollDuplicate
  \/ PollLatest
  \/ PollFetchLogs
  \/ PollEnqueue
  \/ WorkerDuplicate
  \/ WorkerReorg
  \/ WorkerReorgWalk
  \/ WorkerReorgDone
  \/ WorkerGap
  \/ WorkerGapFetched
  \/ WorkerIngest
  \/ WorkerIngestDone

SpecNoFault == InitNoFault /\ [][NextNoFault]_vars

\* The runs of SpecErr with kill(): the error count can reach the end of
\* ERROR_TIMEOUT once, and kill() can be called at every point of a run.
InitKill ==
  /\ InitState
  /\ finalityBlockCount = 1
  /\ tips = {b \in Blocks : Num(b) = MaxTip /\ ~IsForkB(b)}
  /\ faultsLeft = MaxFaultsKill
  /\ history = [failStreak |-> Off, reorgSeen |-> Off, accepted |-> {Off}]

NextKill ==
  \/ NextErr
  \/ Kill

SpecKill == InitKill /\ [][NextKill]_vars

\* ----------------------------------------- calls of the filter predicates
\* The inputs the predicates of the filter engine are called with.
BlockNumbers == 0 .. MaxBlockNumber
FromBlocks == {Undefined, MaxBlockNumber - 2, MaxBlockNumber - 1}
ToBlocks == {Undefined, MaxBlockNumber - 1}
Ranges == [fromBlock : FromBlocks, toBlock : ToBlocks]
Candidates == HexValues \cup {Missing}
ValueLists ==
  {<<>>} \cup {<<v>> : v \in HexValues}
         \cup {<<v, w>> : v \in HexValues, w \in HexValues}
Constraints ==
  {Absent} \cup {Single(v) : v \in HexValues} \cup {List(vs) : vs \in ValueLists}
AddressConstraints ==
  {Absent, Single("0xa"), Single("0xb"), List(<<>>), List(<<"0xa", "0xb">>),
   FactoryReference}
FewAddressConstraints == {Absent, Single("0xa"), FactoryReference}
TopicConstraints == {Absent, Single("0xa")}
TopicLists ==
  {<<>>, <<"0xa">>, <<"0xA", "0xa">>, <<"0xb", "0xa", "0xa", "0xa">>,
   <<"0xa", "0xa", "0xa", "0xb">>}

\* A call is recorded with its inputs and its result.
Returned(fn, filter, number, candidate, result) ==
  [fn |-> fn, filter |-> filter, number |-> number, candidate |-> candidate,
   result |-> result]

\* A call of a predicate changes nothing of the sync.
SyncUnchanged ==
  /\ UNCHANGED <<finalityBlockCount, tips, isKilled, finalizedBlock,
                 finalizedChildAddresses, unfinalizedChildAddresses,
                 factoryLogsPerBlock, unfinalizedBlocks, queue,
                 consecutiveErrors, worker, poller, faultsLeft, fatalErrors,
                 emitted, lastBlockEvent, eventsSince, history, gateway>>

CallIsValueMatched ==
  /\ call = NoCall
  /\ \E filterValue \in Constraints, eventValue \in Candidates :
    call' = Returned("isValueMatched", filterValue, Undefined, eventValue,
           isValueMatched(filterValue, eventValue))
  /\ step' = "isValueMatched"
  /\ SyncUnchanged

CallIsLogFilterMatched ==
  /\ call = NoCall
  /\ \E range \in Ranges, number \in BlockNumbers,
     topic0 \in TopicConstraints \cup {List(<<"0xa", "0xb">>)},
     topic1 \in TopicConstraints, topic2 \in TopicConstraints,
     topic3 \in TopicConstraints, address \in AddressConstraints,
     topics \in TopicLists, logAddress \in HexValues :
    LET filter == [fromBlock |-> range.fromBlock, toBlock |-> range.toBlock,
                   topic0 |-> topic0, topic1 |-> topic1, topic2 |-> topic2,
                   topic3 |-> topic3, address |-> address]
        log == [topics |-> topics, address |-> logAddress]
    IN call' = Returned("isLogFilterMatched", filter, number, log,
              isLogFilterMatchedFor(filter, number, log))
  /\ step' = "isLogFilterMatched"
  /\ SyncUnchanged

\* The three places that keep a log are asked about the same log, with the
\* children of the factory the filter may refer to.
CallKeepLog ==
  /\ call = NoCall
  /\ \E range \in Ranges, number \in BlockNumbers,
        topic0 \in TopicConstraints, address \in AddressConstraints,
        topics \in TopicLists, logAddress \in HexValues,
        finalized \in SUBSET {"0xa"}, unfinalized \in SUBSET {"0xa"} :
       LET filter == [fromBlock |-> range.fromBlock,
                      toBlock |-> range.toBlock, topic0 |-> topic0,
                      topic1 |-> Absent, topic2 |-> Absent,
                      topic3 |-> Absent, address |-> address]
           log == [topics |-> topics, address |-> logAddress]
       IN call' = Returned("keepLog", filter, number,
                           [log |-> log, finalized |-> finalized,
                            unfinalized |-> unfinalized],
                           [fetchBlockEventData |->
                              isLogKeptByFetchBlockEventData(filter, number,
                                                             log),
                            handleBlock |->
                              isLogKeptByHandleBlock(filter, number, log,
                                                     finalized, unfinalized),
                            buildEvents |->
                              isLogKeptByBuildEvents(filter, number, log,
                                                     finalized, unfinalized)])
  /\ step' = "keepLog"
  /\ SyncUnchanged

CallIsTransactionFilterMatched ==
  /\ call = NoCall
  /\ \E range \in Ranges, number \in BlockNumbers,
     fromAddress \in AddressConstraints, toAddress \in AddressConstraints,
     from \in HexValues, to \in Candidates :
    LET filter == [fromBlock |-> range.fromBlock, toBlock |-> range.toBlock,
                   fromAddress |-> fromAddress, toAddress |-> toAddress]
        transaction == [from |-> from, to |-> to]
    IN call' = Returned("isTransactionFilterMatched", filter, number,
                        transaction,
                        isTransactionFilterMatched(filter, number,
                                                   transaction))
  /\ step' = "isTransactionFilterMatched"
  /\ SyncUnchanged

CallIsTraceFilterMatched ==
  /\ call = NoCall
  /\ \E range \in Ranges, number \in BlockNumbers,
     fromAddress \in FewAddressConstraints,
     toAddress \in FewAddressConstraints,
     callType \in {"call", "create"}, functionSelector \in TopicConstraints,
     from \in HexValues, to \in Candidates, type \in {"call", "create"},
     selector \in {"0xa", "0xb"} :
    LET filter == [fromBlock |-> range.fromBlock, toBlock |-> range.toBlock,
                   fromAddress |-> fromAddress, toAddress |-> toAddress,
                   callType |-> callType,
                   functionSelector |-> functionSelector]
        trace == [from |-> from, to |-> to, type |-> type,
                  selector |-> selector]
    IN call' = Returned("isTraceFilterMatched", filter, number, trace,
              isTraceFilterMatched(filter, number, trace))
  /\ step' = "isTraceFilterMatched"
  /\ SyncUnchanged

CallIsTransferFilterMatched ==
  /\ call = NoCall
  /\ \E range \in Ranges, number \in BlockNumbers,
     fromAddress \in AddressConstraints, toAddress \in AddressConstraints,
     from \in HexValues, to \in Candidates, value \in {Undefined, 0, 1} :
    LET filter == [fromBlock |-> range.fromBlock, toBlock |-> range.toBlock,
                   fromAddress |-> fromAddress, toAddress |-> toAddress]
        trace == [from |-> from, to |-> to, value |-> value]
    IN call' = Returned("isTransferFilterMatched", filter, number, trace,
              isTransferFilterMatched(filter, number, trace))
  /\ step' = "isTransferFilterMatched"
  /\ SyncUnchanged

CallIsBlockFilterMatched ==
  /\ call = NoCall
  /\ \E range \in Ranges, number \in BlockNumbers, interval \in 1 .. 3 :
    \E offset \in 0 .. (interval - 1) :
      LET filter == [fromBlock |-> range.fromBlock, toBlock |-> range.toBlock,
                     interval |-> interval, offset |-> offset]
      IN call' = Returned("isBlockFilterMatched", filter, number, Undefined,
                isBlockFilterMatchedFor(filter, number))
  /\ step' = "isBlockFilterMatched"
  /\ SyncUnchanged

\* The filter engine on its own: no block is synced, and a run is one call
\* of one predicate with any input of the sets above.
InitFilter ==
  /\ InitState
  /\ finalityBlockCount = 1
  /\ tips = {}
  /\ faultsLeft = 0
  /\ history = [failStreak |-> Off, reorgSeen |-> Off, accepted |-> {Off}]

NextFilter ==
  \/ CallIsValueMatched
  \/ CallIsLogFilterMatched
  \/ CallKeepLog
  \/ CallIsTransactionFilterMatched
  \/ CallIsTraceFilterMatched
  \/ CallIsTransferFilterMatched
  \/ CallIsBlockFilterMatched

SpecFilter == InitFilter /\ [][NextFilter]_vars

\* --------------------------------------- the events of one block's data
\* The sources of a configuration: a filter with its type and chain.
Source(type, chainId, filter) ==
  [type |-> type, chainId |-> chainId, filter |-> filter]

LogFilter(address) ==
  [fromBlock |-> Undefined, toBlock |-> Undefined, topic0 |-> Absent,
   topic1 |-> Absent, topic2 |-> Absent, topic3 |-> Absent,
   address |-> address]

TransactionFilter(toAddress) ==
  [fromBlock |-> Undefined, toBlock |-> Undefined, fromAddress |-> Absent,
   toAddress |-> toAddress]

TraceFilter ==
  [fromBlock |-> Undefined, toBlock |-> Undefined, fromAddress |-> Absent,
   toAddress |-> Absent, callType |-> "call", functionSelector |-> Absent]

BlockFilter(interval) ==
  [fromBlock |-> Undefined, toBlock |-> Undefined, interval |-> interval,
   offset |-> 0]

SourceChoices ==
  {Source("log", ChainId, LogFilter(Absent)),
   Source("log", ChainId, LogFilter(Single("0xb"))),
   Source("log", ChainId, LogFilter(FactoryReference)),
   Source("trace", ChainId, TraceFilter),
   Source("transfer", ChainId, TransactionFilter(Absent)),
   Source("transaction", ChainId, TransactionFilter(Absent)),
   Source("transaction", ChainId, TransactionFilter(Single("0xb"))),
   Source("block", ChainId, BlockFilter(1)),
   Source("block", ChainId + 1, BlockFilter(1))}

\* One source of every kind, the block source first.
SourcesOfEveryKind ==
  <<Source("block", ChainId, BlockFilter(1)),
    Source("trace", ChainId, TraceFilter),
    Source("log", ChainId, LogFilter(Absent)),
    Source("transaction", ChainId, TransactionFilter(Absent))>>

SourceLists ==
  UNION {[1 .. n -> SourceChoices] : n \in 1 .. MaxSources}
    \cup {SourcesOfEveryKind}

\* The data of the block: two transactions, the second a contract creation
\* no log and no trace belongs to; two logs and a trace of the first.
Transaction1 ==
  [hash |-> "t1", transactionIndex |-> 0, from |-> "0xa", to |-> "0xb"]

Transaction2 ==
  [hash |-> "t2", transactionIndex |-> 1, from |-> "0xb", to |-> Missing]

Log1 ==
  [address |-> "0xa", topics |-> <<"0xa">>, transactionHash |-> "t1",
   transactionIndex |-> 0, logIndex |-> 0]

Log2 ==
  [address |-> "0xb", topics |-> <<"0xa">>, transactionHash |-> "t1",
   transactionIndex |-> 0, logIndex |-> 1]

Trace1 ==
  [trace |-> [from |-> "0xa", to |-> "0xb", type |-> "call",
              selector |-> "0xa", value |-> 1],
   position |-> 0, transactionHash |-> "t1"]

BlockData ==
  [number : {1}, timestamp : {10},
   transactions : {<<Transaction1>>, <<Transaction1, Transaction2>>},
   logs : {<<>>, <<Log1>>, <<Log1, Log2>>},
   traces : {<<>>, <<Trace1>>}]

\* The children of the factory the log filters may refer to.
FinalizedChildren == {}
UnfinalizedChildren == {"0xa"}

\* The sources of one type, and their filters.
FiltersOf(sources, type) ==
  {sources[i].filter : i \in {j \in DOMAIN sources : sources[j].type = type}}

\* handleBlock: "Remove logs that don't match a filter, accounting for
\* factory addresses".
handleBlockLogs(sources, data) ==
  LET IsMatched(log) ==
        \E filter \in FiltersOf(sources, "log") :
          isLogKeptByHandleBlock(filter, data.number, log, FinalizedChildren,
                                 UnfinalizedChildren)
  IN SelectSeq(data.logs, IsMatched)

handleBlockTraces(sources, data) ==
  LET IsMatched(trace) ==
        \/ \E filter \in FiltersOf(sources, "transfer") :
             isTransferFilterMatched(filter, data.number, trace.trace)
        \/ \E filter \in FiltersOf(sources, "trace") :
             isTraceFilterMatched(filter, data.number, trace.trace)
  IN SelectSeq(data.traces, IsMatched)

\* handleBlock: "Remove transactions and transaction receipts that may have
\* been filtered out": the transactions of the kept logs and traces and those
\* a transaction filter matches, and of these the transactions of the kept
\* logs and traces.
handleBlockTransactions(sources, data) ==
  LET logs == handleBlockLogs(sources, data)
      traces == handleBlockTraces(sources, data)
      transactionHashes ==
        {logs[i].transactionHash : i \in DOMAIN logs}
          \cup {traces[i].transactionHash : i \in DOMAIN traces}
      IsMatched(transaction) ==
        \/ transaction.hash \in transactionHashes
        \/ \E filter \in FiltersOf(sources, "transaction") :
             isTransactionFilterMatched(filter, data.number, transaction)
      IsReferred(t) == t.hash \in transactionHashes
  IN SelectSeq(SelectSeq(data.transactions, IsMatched), IsReferred)

\* The data of the block event handleBlock hands to the sink.
handleBlockData(sources, data) ==
  [data EXCEPT !.logs = handleBlockLogs(sources, data),
               !.traces = handleBlockTraces(sources, data),
               !.transactions = handleBlockTransactions(sources, data)]

\* transactionCache.get(hash): the transaction of the block's data with
\* that hash.
TransactionOf(data, hash) ==
  CHOOSE t \in SeqToSet(data.transactions) : t.hash = hash

\* An event of buildEvents: the source it is made for, its checkpoint, and
\* the log, trace or transaction it is made of.
RawEvent(sourceIndex, checkpoint, type, of) ==
  [sourceIndex |-> sourceIndex, checkpoint |-> checkpoint, type |-> type,
   of |-> of]

\* The events buildEvents pushes for the i-th source.
EventsOfSource(sources, i, data) ==
  LET filter == sources[i].filter
      Cp(transactionIndex, eventType, eventIndex) ==
        Checkpoint(data.timestamp, sources[i].chainId, data.number,
                   transactionIndex, eventType, eventIndex)
  IN IF sources[i].chainId # ChainId THEN {}
     ELSE IF sources[i].type = "log" THEN
       {RawEvent(i, Cp(log.transactionIndex, EventTypeLogs, log.logIndex),
                 "log", log.logIndex) :
          log \in {l \in SeqToSet(data.logs) :
                     isLogKeptByBuildEvents(filter, data.number, l,
                                            FinalizedChildren,
                                            UnfinalizedChildren)}}
     ELSE IF sources[i].type = "trace" THEN
       {RawEvent(i, Cp(TransactionOf(data, trace.transactionHash)
                         .transactionIndex,
                       EventTypeTraces, trace.position),
                 "trace", trace.position) :
          trace \in {t \in SeqToSet(data.traces) :
                       isTraceFilterMatched(filter, data.number, t.trace)}}
     ELSE IF sources[i].type = "transaction" THEN
       {RawEvent(i, Cp(transaction.transactionIndex, EventTypeTransactions,
                       0),
                 "transaction", transaction.hash) :
          transaction \in {t \in SeqToSet(data.transactions) :
                             isTransactionFilterMatched(filter, data.number,
                                                        t)}}
     ELSE IF sources[i].type = "transfer" THEN
       {RawEvent(i, Cp(TransactionOf(data, trace.transactionHash)
                         .transactionIndex,
                       EventTypeTraces, trace.position),
                 "transfer", trace.position) :
          trace \in {t \in SeqToSet(data.traces) :
                       isTransferFilterMatched(filter, data.number,
                                               t.trace)}}
     ELSE IF isBlockFilterMatchedFor(filter, data.number) THEN
       {RawEvent(i, Cp(MaxTransactionIndex, EventTypeBlocks, 0), "block",
                 data.number)}
     ELSE {}

\* A variant of sortedByCheckpoint that leaves the events in any order; C38
\* is checked against it to show that it rests on the sort.
arrangedInAnyOrder(events) ==
  {seq \in [1 .. Cardinality(events) -> events] :
     \A i, j \in DOMAIN seq : i # j => seq[i] # seq[j]}

\* events.sort((a, b) => (a.checkpoint < b.checkpoint ? -1 : 1)): the
\* arrangements of the events in which no event stands before one with a
\* smaller checkpoint. The comparator never answers 0, so the order of
\* events with equal checkpoints is left to the sort.
sortedByCheckpoint(events) ==
  {seq \in [1 .. Cardinality(events) -> events] :
     /\ \A i, j \in DOMAIN seq : i # j => seq[i] # seq[j]
     /\ \A i, j \in DOMAIN seq :
          i < j => ~CheckpointLess(seq[j].checkpoint, seq[i].checkpoint)}

\* The lists buildEvents can return for the sources and the block's data.
buildEventsFor(sources, data) ==
  sortedByCheckpoint(UNION {EventsOfSource(sources, i, data) :
                              i \in DOMAIN sources})

\* buildEvents is called with any sources and any data of a block.
CallBuildEvents ==
  /\ call = NoCall
  /\ \E sources \in SourceLists, data \in BlockData :
       \E events \in buildEventsFor(sources, data) :
         call' = Returned("buildEvents", sources, data.number, data, events)
  /\ step' = "buildEvents"
  /\ SyncUnchanged

\* handleBlock filters the data the fetcher got for a block, and the sink
\* calls buildEvents with the data of the block event.
CallHandleBlock ==
  /\ call = NoCall
  /\ \E sources \in SourceLists, data \in BlockData :
       \E events \in buildEventsFor(sources, handleBlockData(sources, data)) :
         call' = Returned("handleBlock", sources, data.number, data,
                          [data |-> handleBlockData(sources, data),
                           events |-> events])
  /\ step' = "handleBlock"
  /\ SyncUnchanged

NextEvents ==
  \/ CallBuildEvents
  \/ CallHandleBlock

SpecEvents == InitFilter /\ [][NextEvents]_vars

\* The runs of SpecNoFault with a remote that reports any block numbered
\* 1 .. MaxDeepTip as its latest: a reorg at height MaxDeepTip keeps the local
\* blocks below it.
InitDeep ==
  /\ InitState
  /\ finalityBlockCount = MaxFinality
  /\ tips = {b \in Blocks : Num(b) >= 1 /\ Num(b) <= MaxDeepTip}
  /\ faultsLeft = 0
  /\ history = [failStreak |-> Off, reorgSeen |-> Off, accepted |-> {Off}]

SpecDeep == InitDeep /\ [][NextNoFault]_vars

RECURSIVE DirectIngest(_)
\* The state of an instance that, started at block 0, fetched the event data
\* of each block of the chain ending in h once (fetchBlockEventData) and
\* ingested it (handleBlock, no block moving finality), and did nothing else.
DirectIngest(h) ==
  IF h = 0
    THEN [finalizedBlock |-> 0,
          unfinalizedBlocks |-> <<>>,
          finalizedChildAddresses |-> [f \in Factories |-> {}],
          unfinalizedChildAddresses |-> [f \in Factories |-> {}],
          factoryLogsPerBlock |-> [x \in Blocks |-> {}]]
    ELSE LET before == DirectIngest(ParentHash(h))
         IN [before EXCEPT
               !.unfinalizedBlocks = Append(@, h),
               !.unfinalizedChildAddresses =
                 [f \in Factories |->
                    @[f] \cup ChildAddresses(FactoryLogs(h), f)],
               !.factoryLogsPerBlock = [@ EXCEPT ![h] = FactoryLogs(h)]]

\* ------------------------------------------- runs with any finalityBlockCount
\* As Spec, with the finalityBlockCount 0 among the network configurations.
InitAnyFinality ==
  /\ InitState
  /\ finalityBlockCount \in 0 .. MaxFinality
  /\ tips = {b \in Blocks : Num(b) <= MaxTip}
  /\ faultsLeft = MaxFaults
  /\ history = [failStreak |-> Off, reorgSeen |-> Off, accepted |-> {Off}]

SpecAnyFinality == InitAnyFinality /\ [][Next]_vars

\* ------------------------------------------------------ runs with a wide gap
\* The remote's head is the fork-a block numbered MaxNum from the start, so
\* that the first poll finds more blocks missing than MAX_QUEUED_BLOCKS; no
\* request fails and the instance is not killed.
InitGap ==
  /\ InitState
  /\ finalityBlockCount = MaxFinality
  /\ tips = {b \in Blocks : Num(b) = MaxNum /\ ~IsForkB(b)}
  /\ faultsLeft = 0
  /\ history = [failStreak |-> Off, reorgSeen |-> Off, accepted |-> {Off}]

NextGap ==
  \/ PollDuplicate
  \/ PollLatest
  \/ PollFetchLogs
  \/ PollEnqueue
  \/ WorkerDuplicate
  \/ WorkerGap
  \/ WorkerGapFetched
  \/ WorkerIngest
  \/ WorkerIngestDone
  \/ WorkerFinalize
  \/ WorkerFinalizeDone

SpecGap == InitGap /\ [][NextGap]_vars

\* ------------------------------------------- runs that follow the sink
\* As SpecErr with the remote reporting any fork-a block up to MaxTip as its
\* latest and MaxFaults failures; the run records the blocks whose block
\* event the sink accepted.
InitSink ==
  /\ InitState
  /\ finalityBlockCount = 1
  /\ tips = {b \in Blocks : Num(b) <= MaxTip /\ ~IsForkB(b)}
  /\ faultsLeft = MaxFaults
  /\ history = [failStreak |-> Off, reorgSeen |-> Off, accepted |-> {}]

SpecSink == InitSink /\ [][NextErr]_vars

\* ------------------------------------------- runs that follow the queue
\* The remote's head stays at the fork-a block numbered MaxTip, no request
\* fails, the sink accepts every event and the instance is not killed; the
\* polls go on while the worker is suspended, up to MaxPolls queued items.
InitQueue ==
  /\ InitState
  /\ finalityBlockCount = MaxFinality
  /\ tips = {b \in Blocks : Num(b) = MaxTip /\ ~IsForkB(b)}
  /\ faultsLeft = 0
  /\ history = [failStreak |-> Off, reorgSeen |-> Off, accepted |-> {Off}]

NextQueue ==
  \/ PollDuplicate
  \/ PollLatestBehind
  \/ PollFetchLogs
  \/ PollEnqueue
  \/ WorkerDuplicate
  \/ WorkerGap
  \/ WorkerGapFetched
  \/ WorkerIngest
  \/ WorkerIngestDone

SpecQueue == InitQueue /\ [][NextQueue]_vars

\* ------------------------------------------ runs with a settled remote
\* The remote chain has stopped changing: its head is the fork-a block
\* numbered MaxNum, which descends from finalizedBlock. The instance has
\* ingested the chain that ends in a block of fork b, or nothing; no request
\* fails, the sink accepts every event and the instance is not killed. The
\* poller and the worker are scheduled fairly.
LocalHeads == {0, 3, 5}

InitSettled ==
  /\ \E h \in LocalHeads :
       /\ finalizedBlock = DirectIngest(h).finalizedBlock
       /\ unfinalizedBlocks = DirectIngest(h).unfinalizedBlocks
       /\ finalizedChildAddresses = DirectIngest(h).finalizedChildAddresses
       /\ unfinalizedChildAddresses = DirectIngest(h).unfinalizedChildAddresses
       /\ factoryLogsPerBlock = DirectIngest(h).factoryLogsPerBlock
  /\ isKilled = FALSE
  /\ queue = <<>>
  /\ consecutiveErrors = 0
  /\ worker = IdleWorker
  /\ poller = IdlePoller
  /\ fatalErrors = 0
  /\ step = "start"
  /\ emitted = NoEvent
  /\ lastBlockEvent = NoEvent
  /\ eventsSince = {}
  /\ call = NoCall
  /\ gateway = InitGateway
  /\ finalityBlockCount = MaxFinality
  /\ tips = {b \in Blocks : Num(b) = MaxNum /\ ~IsForkB(b)}
  /\ faultsLeft = 0
  /\ history = [failStreak |-> Off, reorgSeen |-> Off, accepted |-> {Off}]

PollerStep ==
  \/ PollDuplicate
  \/ PollLatest
  \/ PollFetchLogs
  \/ PollEnqueue

WorkerStep ==
  \/ WorkerDuplicate
  \/ WorkerReorg
  \/ WorkerReorgWalk
  \/ WorkerReorgDone
  \/ WorkerGap
  \/ WorkerGapFetched
  \/ WorkerIngest
  \/ WorkerIngestDone
  \/ WorkerFinalize
  \/ WorkerFinalizeDone

NextSettled ==
  \/ PollerStep
  \/ WorkerStep

SpecSettled ==
  /\ InitSettled
  /\ [][NextSettled]_vars
  /\ WF_vars(PollerStep)
  /\ WF_vars(WorkerStep)

\* ------------------------------------------------ calls of the sync gateway
\* A call of the gateway changes nothing of the realtime sync.
GatewayUnchanged ==
  /\ UNCHANGED <<finalityBlockCount, tips, isKilled, finalizedBlock,
                 finalizedChildAddresses, unfinalizedChildAddresses,
                 factoryLogsPerBlock, unfinalizedBlocks, queue,
                 consecutiveErrors, worker, poller, faultsLeft, fatalErrors,
                 emitted, lastBlockEvent, eventsSince, history, call>>

\* The handlers are called with the checkpoints of any registered network,
\* in any order.
HandleNewHistoricalCheckpoint ==
  /\ \E chainId \in Chains, blockTimestamp \in 1 .. MaxTimestamp :
       gateway' = handleNewHistoricalCheckpoint(
                    AtCall(gateway),
                    GatewayCheckpoint(chainId, blockTimestamp))
  /\ step' = "handleNewHistoricalCheckpoint"
  /\ GatewayUnchanged

HandleHistoricalSyncComplete ==
  /\ \E chainId \in Chains :
       gateway' = handleHistoricalSyncComplete(AtCall(gateway), chainId)
  /\ step' = "handleHistoricalSyncComplete"
  /\ GatewayUnchanged

HandleNewRealtimeCheckpoint ==
  /\ \E chainId \in Chains, blockTimestamp \in 1 .. MaxTimestamp :
       gateway' = handleNewRealtimeCheckpoint(
                    AtCall(gateway),
                    GatewayCheckpoint(chainId, blockTimestamp))
  /\ step' = "handleNewRealtimeCheckpoint"
  /\ GatewayUnchanged

ResetCheckpoints ==
  /\ \E chainId \in Chains :
       gateway' = resetCheckpoints(AtCall(gateway), chainId)
  /\ step' = "resetCheckpoints"
  /\ GatewayUnchanged

NextGateway ==
  \/ HandleNewHistoricalCheckpoint
  \/ HandleHistoricalSyncComplete
  \/ HandleNewRealtimeCheckpoint
  \/ ResetCheckpoints

SpecGateway == InitFilter /\ [][NextGateway]_vars

\* ------------------------------------ the requests of fetchBlockEventData
\* A logs bloom is kept as the set of the values whose bits are set in it;
\* no bit is set in zeroLogsBloom.
zeroLogsBloom == {}
Blooms == SUBSET {"0xa", "0xb"}

isInBloom(bloom, value) == value \in bloom

\* One dimension of isFilterInBloom: a fully specified constraint (a value or
\* a non-empty list, no factory) needs a hit of one of its values.
isConstraintInBloom(bloom, constraint) ==
  IF constraint.kind \in {"absent", "factory"} THEN TRUE
  ELSE IF constraint.values = <<>> THEN TRUE
  ELSE \E i \in 1 .. Len(constraint.values) :
         isInBloom(bloom, constraint.values[i])

isFilterInBloom(bloom, filter) ==
  /\ isConstraintInBloom(bloom, filter.address)
  /\ isConstraintInBloom(bloom, filter.topic0)
  /\ isConstraintInBloom(bloom, filter.topic1)
  /\ isConstraintInBloom(bloom, filter.topic2)
  /\ isConstraintInBloom(bloom, filter.topic3)

\* A variant of shouldRequestLogs that asks the bloom only; C37 is checked
\* against it to show that it rests on the all-zero bloom forcing the request.
shouldRequestLogsByBloomOnly(block, filters) ==
  \E filter \in filters : isFilterInBloom(block.logsBloom, filter)

shouldRequestLogs(block, filters) ==
  \/ block.logsBloom = zeroLogsBloom
  \/ \E filter \in filters : isFilterInBloom(block.logsBloom, filter)

\* The "Logs" part of fetchBlockEventData for a block, the configured log
\* filters and the answer eth_getLogs gives when asked: whether the request
\* was made, and whether the part ended in an error.
fetchLogs(block, filters, response) ==
  IF ~shouldRequestLogs(block, filters)
    THEN [requested |-> FALSE, error |-> FALSE, logs |-> {}]
  ELSE IF block.logsBloom # zeroLogsBloom /\ response = {}
    THEN [requested |-> TRUE, error |-> TRUE, logs |-> {}]
  ELSE IF \E log \in response : log.blockHash # block.hash
    THEN [requested |-> TRUE, error |-> TRUE, logs |-> {}]
  ELSE [requested |-> TRUE, error |-> FALSE, logs |-> response]

shouldRequestTraces(traceFilterCount, transferFilterCount) ==
  traceFilterCount > 0 \/ transferFilterCount > 0

\* The "Traces" part of fetchBlockEventData for a block with the transactions
\* given by their hashes.
fetchTraces(block, traceFilterCount, transferFilterCount, response) ==
  IF ~shouldRequestTraces(traceFilterCount, transferFilterCount)
    THEN [requested |-> FALSE, error |-> FALSE, traces |-> {}]
  ELSE IF block.transactions # {} /\ response = {}
    THEN [requested |-> TRUE, error |-> TRUE, traces |-> {}]
  ELSE IF \E trace \in response :
            trace.transactionHash \notin block.transactions
    THEN [requested |-> TRUE, error |-> TRUE, traces |-> {}]
  ELSE [requested |-> TRUE, error |-> FALSE, traces |-> response]

\* The inputs of the two parts: the block "h1", the log filters of up to two
\* sources, and the answers of the node.
BloomFilters ==
  {[LogFilter(address) EXCEPT !.topic0 = topic0] :
     address \in {Absent, Single("0xa"), List(<<>>), List(<<"0xa", "0xb">>),
                  FactoryReference},
     topic0 \in {Absent, Single("0xb")}}
BloomFilterSets == {fs \in SUBSET BloomFilters : Cardinality(fs) <= MaxSources}
LogResponses == SUBSET {[blockHash |-> "h1", logIndex |-> 0],
                        [blockHash |-> "h2", logIndex |-> 1]}
TransactionSets == {{}, {"t1"}}
TraceResponses == SUBSET {[transactionHash |-> "t1"],
                          [transactionHash |-> "t2"]}

CallFetchLogs ==
  /\ call = NoCall
  /\ \E bloom \in Blooms, filters \in BloomFilterSets,
        response \in LogResponses :
       LET block == [hash |-> "h1", logsBloom |-> bloom]
       IN call' = Returned("fetchLogs", filters, block, response,
                           fetchLogs(block, filters, response))
  /\ step' = "fetchBlockEventData"
  /\ SyncUnchanged

CallFetchTraces ==
  /\ call = NoCall
  /\ \E transactions \in TransactionSets, traceFilterCount \in 0 .. 1,
        transferFilterCount \in 0 .. 1, response \in TraceResponses :
       LET block == [hash |-> "h1", transactions |-> transactions]
           filters == <<traceFilterCount, transferFilterCount>>
       IN call' = Returned("fetchTraces", filters, block, response,
                           fetchTraces(block, traceFilterCount,
                                       transferFilterCount, response))
  /\ step' = "fetchBlockEventData"
  /\ SyncUnchanged

NextFetch ==
  \/ CallFetchLogs
  \/ CallFetchTraces

SpecFetch == InitFilter /\ [][NextFetch]_vars

\* ================================================================= claims
\* Every checkpoint of the set A is below every checkpoint of the set B.
AllLess(A, B) == \A a \in A : \A b \in B : CheckpointLess(a, b)

\* C1: in every reachable state unfinalizedBlocks is a parent-linked
\* contiguous chain: each entry's parentHash is the hash of the entry before
\* it and its number is one more, and the first entry chains in the same way
\* to finalizedBlock.
C1_ChainLinked ==
  \A i \in 1 .. Len(unfinalizedBlocks) :
    LET prev == IF i = 1 THEN finalizedBlock ELSE unfinalizedBlocks[i - 1]
    IN /\ ParentHash(unfinalizedBlocks[i]) = prev
       /\ Num(unfinalizedBlocks[i]) = Num(prev) + 1

\* C1 witness: two blocks were ingested, a reorg that removed both was
\* reconciled by walking back, and the first block of the winning fork has
\* been appended.
C1_Witness ==
  /\ step = "WorkerIngest"
  /\ "reorg" \in emitted.since
  /\ Num(emitted.previous) = 2
  /\ unfinalizedBlocks = <<emitted.block>>

\* C2 (as claimed): a block event that follows another block event with no
\* reorg and no finalize event between them carries the block numbered one
\* more whose parentHash is the earlier block's hash.
C2_SuccessiveBlockEvents ==
  (/\ emitted.type = "block"
   /\ emitted.previous # NoBlock
   /\ emitted.since = {})
  => /\ Num(emitted.block) = Num(emitted.previous) + 1
     /\ ParentHash(emitted.block) = emitted.previous

\* C3 (as claimed): every checkpoint of a block event is greater than every
\* checkpoint of the block event handed over before it (and so, in turn, than
\* those of every earlier block event); stated for the block events that
\* come after a reconciled reorg, the re-ingests the claim names.
C3_CheckpointsIncrease ==
  (/\ emitted.type = "block"
   /\ emitted.previous # NoBlock
   /\ "reorg" \in emitted.since)
  => AllLess(emitted.previousCheckpoints, emitted.checkpoints)

\* C3 (amended): when a block event follows the block event of its parent
\* block, every checkpoint of it is greater than every checkpoint of the
\* parent's event.
C3_CheckpointsIncreaseAlongChain ==
  (/\ emitted.type = "block"
   /\ emitted.previous # NoBlock
   /\ ParentHash(emitted.block) = emitted.previous)
  => AllLess(emitted.previousCheckpoints, emitted.checkpoints)

\* C3 witness: a block whose events include a log event follows its parent.
C3_Witness ==
  /\ emitted.type = "block"
  /\ ParentHash(emitted.block) = emitted.previous
  /\ Cardinality(emitted.checkpoints) = 2
  /\ emitted.previousCheckpoints # {}

\* C4 (as claimed): whenever the worker is not processing an item, the
\* unfinalized child addresses of every factory are exactly the children
\* announced by the cached factory logs of the unfinalized blocks.
C4_UnfinalizedChildrenExact ==
  worker.pc = "idle"
  => \A f \in Factories :
       unfinalizedChildAddresses[f] =
         RecomputeUnfinalizedChildAddresses(unfinalizedBlocks)[f]

\* C5 (as claimed): when a reorg no deeper than finalityBlockCount has been
\* reconciled, a block of the winning fork has been ingested and nothing is
\* in flight, the state (finalizedBlock, unfinalizedBlocks, both
\* child-address maps, factoryLogsPerBlock) is the state of ingesting the
\* head's chain directly.
C5_ReorgEqualsDirectIngest ==
  (/\ history.reorgSeen = 1
   /\ step = "WorkerIngestDone"
   /\ queue = <<>>
   /\ poller.pc = "idle")
  => [finalizedBlock |-> finalizedBlock,
      unfinalizedBlocks |-> unfinalizedBlocks,
      finalizedChildAddresses |-> finalizedChildAddresses,
      unfinalizedChildAddresses |-> unfinalizedChildAddresses,
      factoryLogsPerBlock |-> factoryLogsPerBlock]
     = DirectIngest(getLatestUnfinalizedBlock)

\* C6 (as claimed): a walk-back that exhausts unfinalizedBlocks is fatal at
\* once: onFatalError is called and the worker does not enter its backoff
\* wait.
C6_UnrecoverableIsFatal ==
  worker.error = "unrecoverable"
  => (worker.pc # "backoff" /\ fatalErrors >= 1)

\* C7 (as claimed): once 14 worker items in a row have ended in a caught
\* error, with no item completing in between, onFatalError has been called.
C7_FourteenFailuresAreFatal ==
  history.failStreak >= Len(ERROR_TIMEOUT) => fatalErrors >= 1

\* C8 (as claimed): onFatalError is called at most once, counting the calls
\* of the worker's catch and of the poller's catch.
C8_FatalAtMostOnce == fatalErrors <= 1

\* The operations that add an item to the queue or take one from it.
QueueWork ==
  {"PollEnqueue", "WorkerGapFetched", "WorkerDuplicate", "WorkerReorg",
   "WorkerGap", "WorkerIngest"}

\* C9 (as claimed): once onFatalError has been called no item is added to the
\* queue or taken from it and no onEvent call is made.
C9_StopsAfterFatal ==
  fatalErrors >= 1 => (step \notin QueueWork /\ emitted.type = "none")

\* C11: when handleBlock goes on after B's block event was accepted, it
\* emits a finalize event if and only if B.number >= finalizedBlock.number +
\* 2 * finalityBlockCount; the event comes directly after B's block event
\* and carries the unfinalized block numbered B.number - finalityBlockCount,
\* which becomes finalizedBlock, and unfinalizedBlocks keeps exactly the
\* blocks with a greater number, in their order.
C11_FinalizeIffMovesFinality ==
  [][(/\ worker.pc = "blockEvent"
      /\ worker' # worker
      /\ step' # "WorkerSinkFail")
     => LET B == worker.block
            IsAbove(lb) == Num(lb) > Num(B) - finalityBlockCount
        IN IF Num(B) >= Num(finalizedBlock) + 2 * finalityBlockCount
             THEN /\ emitted'.type = "finalize"
                  /\ emitted'.previous = B
                  /\ emitted'.since = {}
                  /\ emitted'.block \in SeqToSet(unfinalizedBlocks)
                  /\ Num(emitted'.block) = Num(B) - finalityBlockCount
                  /\ finalizedBlock' = emitted'.block
                  /\ unfinalizedBlocks' = SelectSeq(unfinalizedBlocks, IsAbove)
             ELSE /\ emitted'.type = "none"
                  /\ UNCHANGED <<finalizedBlock, unfinalizedBlocks>>
    ]_vars

\* C11 witness: a finalize event was emitted and a block stays unfinalized.
C11_Witness ==
  /\ step = "WorkerFinalize"
  /\ emitted.type = "finalize"
  /\ Len(unfinalizedBlocks) > 0
  /\ finalizedBlock # 0

\* C12: when a reorg event is emitted it comes from handleReorg, its block is
\* the head that survived, the surviving chain is a prefix of the local chain
\* as handleReorg found it, reorgedBlocks holds exactly the blocks removed,
\* each once, and the incoming block is not in the list; handleReorg's
\* return emits nothing more and leaves the queue empty, so the incoming
\* block has no block event until it is polled again.
C12_ReorgEventReportsRewind ==
  /\ emitted.type = "reorg"
     => LET surviving == <<finalizedBlock>> \o unfinalizedBlocks
            removed == emitted.reorgedBlocks
        IN /\ step \in {"WorkerReorg", "WorkerReorgWalk"}
           /\ worker.pc = "reorgEvent"
           /\ emitted.block = surviving[Len(surviving)]
           /\ Len(surviving) <= Len(worker.localChain)
           /\ surviving = SubSeq(worker.localChain, 1, Len(surviving))
           /\ SeqToSet(removed)
                = SeqToSet(worker.localChain) \ SeqToSet(surviving)
           /\ Len(removed) = Cardinality(SeqToSet(removed))
           /\ worker.block \notin SeqToSet(unfinalizedBlocks)
  /\ step = "WorkerReorgDone"
     => (emitted.type = "none" /\ queue = <<>> /\ worker.pc = "idle")

\* C12 witness: a reorg that removed two blocks by walking back was
\* reconciled.
C12_Witness ==
  /\ emitted.type = "reorg"
  /\ step = "WorkerReorgWalk"
  /\ Len(emitted.reorgedBlocks) = 2

\* x is the block h or one of its ancestors on the remote chain.
IsOnChainOf(x, h) == Num(x) <= Num(h) /\ AncestorAt(h, Num(x)) = x

\* C13 (as claimed): the block of a reorg event is the highest-numbered block
\* of the local chain, as handleReorg found it, that is the incoming block
\* or one of its ancestors.
C13_ReorgBlockIsCommonAncestor ==
  emitted.type = "reorg"
  => LET shared == {x \in SeqToSet(worker.localChain) :
                      IsOnChainOf(x, worker.block)}
     IN /\ emitted.block \in shared
        /\ \A x \in shared : Num(x) <= Num(emitted.block)

\* C14: when the worker takes an item numbered above head.number + 1 it
\* ingests nothing and starts the gap-fill; when the gap-fill's fetches have
\* returned, the queue holds the fetched blocks, at most MAX_QUEUED_BLOCKS of
\* them (all the missing ones when fewer than that are missing), numbered
\* head.number + 1 upwards without a hole, followed by the triggering block,
\* and nothing else; every block event then carries the number after that
\* of the block event before it.
C14_GapFillRefillsQueue ==
  [][/\ (WorkerReady /\ Num(Head(queue)) > Num(getLatestUnfinalizedBlock) + 1)
        => /\ emitted'.type = "none"
           /\ worker'.pc = "gapFetch"
           /\ UNCHANGED <<finalizedBlock, unfinalizedBlocks>>
     /\ (worker.pc = "gapFetch" /\ worker'.pc = "idle" /\ ~isKilled)
        => LET fetched == Len(queue') - 1
               missing == Num(worker.block) - Num(worker.latestBlock) - 1
           IN /\ fetched >= 1
              /\ fetched <= MAX_QUEUED_BLOCKS
              /\ missing < MAX_QUEUED_BLOCKS => fetched = missing
              /\ \A i \in 1 .. fetched :
                   Num(queue'[i]) = Num(worker.latestBlock) + i
              /\ queue'[fetched + 1] = worker.block
              /\ emitted'.type = "none"
              /\ UNCHANGED <<finalizedBlock, unfinalizedBlocks>>
     /\ (emitted'.type = "block" /\ emitted'.previous # NoBlock)
        => Num(emitted'.block) = Num(emitted'.previous) + 1
    ]_vars

\* C14 witness: more blocks were missing than MAX_QUEUED_BLOCKS, and the
\* triggering block's block event has been emitted after those of all the
\* blocks below it.
C14_Witness ==
  /\ emitted.type = "block"
  /\ Num(emitted.block) = MaxNum
  /\ Num(emitted.previous) = MaxNum - 1
  /\ MaxNum > MAX_QUEUED_BLOCKS + 1

\* The steps in which handleBlock returns to the worker without an error.
IngestReturned == {"WorkerIngestDone", "WorkerFinalizeDone"}

\* C15 (as claimed): after every happy-path ingest of a block B,
\* unfinalizedBlocks is not empty and its last entry is B, whatever the
\* finalityBlockCount.
C15_LastIsIngested ==
  step \in IngestReturned
  => /\ Len(unfinalizedBlocks) > 0
     /\ unfinalizedBlocks[Len(unfinalizedBlocks)] = lastBlockEvent.block

\* C15 (amended): after every happy-path ingest of a block B the head
\* (the last unfinalized block, or finalizedBlock when there is none) is B;
\* with a finalityBlockCount of at least 1 unfinalizedBlocks is not empty
\* and its last entry is B, with a finalityBlockCount of 0 it is empty and
\* finalizedBlock is B.
C15_HeadIsIngested ==
  step \in IngestReturned
  => IF finalityBlockCount >= 1
       THEN /\ Len(unfinalizedBlocks) > 0
            /\ unfinalizedBlocks[Len(unfinalizedBlocks)]
                 = lastBlockEvent.block
       ELSE /\ unfinalizedBlocks = <<>>
            /\ finalizedBlock = lastBlockEvent.block

\* C15 witness: an ingest that ran the finalization has returned and the
\* ingested block is still the last unfinalized one.
C15_Witness ==
  /\ step = "WorkerFinalizeDone"
  /\ finalityBlockCount >= 1
  /\ Len(unfinalizedBlocks) > 0
  /\ unfinalizedBlocks[Len(unfinalizedBlocks)] = lastBlockEvent.block

\* C16 (as claimed): when the finalization has promoted a block, every child
\* address a factory log of that block announces is in
\* finalizedChildAddresses, and it is in unfinalizedChildAddresses only if a
\* block still unfinalized announces it too.
C16_PromotedChildrenFinalized ==
  step = "WorkerFinalize"
  => \A f \in Factories :
       \A child \in ChildAddresses(FactoryLogs(finalizedBlock), f) :
         /\ child \in finalizedChildAddresses[f]
         /\ child \in unfinalizedChildAddresses[f]
            => \E h \in SeqToSet(unfinalizedBlocks) :
                 child \in ChildAddresses(FactoryLogs(h), f)

\* C17: no step removes an address from finalizedChildAddresses.
C17_FinalizedChildrenAppendOnly ==
  [][\A f \in Factories :
       finalizedChildAddresses[f] \subseteq finalizedChildAddresses'[f]]_vars

\* C17 witness: a child address was finalized, and afterwards the worker
\* failed on a block and its error was handled.
C17_Witness ==
  /\ finalizedChildAddresses["F1"] # {}
  /\ step = "WorkerBackoffDone"
  /\ unfinalizedBlocks = <<>>
  /\ finalizedBlock # 0

\* C18: when handleBlock hands over the block event of B, a log of B that
\* matches the topic of the log filter of factory F1 is among the event's logs
\* exactly if its address is in finalizedChildAddresses[F1] or in
\* unfinalizedChildAddresses[F1], and unfinalizedChildAddresses[F1] holds the
\* children announced by B and by every earlier unfinalized block.
C18_LogKeptIffChildKnown ==
  step = "WorkerIngest"
  => /\ \A log \in {l \in BlockLogs(emitted.block) : isLogFilterMatched(l)} :
          Checkpoint(Timestamp(emitted.block), ChainId, Num(emitted.block),
                     log.transactionIndex, EventTypeLogs, log.logIndex)
            \in emitted.checkpoints
          <=> \/ log.address \in finalizedChildAddresses["F1"]
              \/ log.address \in unfinalizedChildAddresses["F1"]
     /\ \A h \in SeqToSet(unfinalizedBlocks) :
          ChildAddresses(FactoryLogs(h), "F1")
            \subseteq unfinalizedChildAddresses["F1"]

\* C19: once kill() has been called, no step adds an item to the queue.
C19_NothingQueuedAfterKill ==
  [][isKilled => queue' = queue]_vars

\* C20: once kill() has been called, no step invokes onFatalError.
C20_NoFatalErrorAfterKill ==
  [][isKilled => fatalErrors' = fatalErrors]_vars

\* The worker is suspended in a call of args.onEvent.
OnEventInFlight == worker.pc \in {"blockEvent", "finalizeEvent", "reorgEvent"}

\* C21: the worker starts on a queue item only when it is processing none,
\* and a call of onEvent starts only when no call is in flight, or as the
\* finalize event of the item whose block event has just returned.
C21_OneItemAtATime ==
  [][/\ step' \in {"WorkerDuplicate", "WorkerReorg", "WorkerGap",
                    "WorkerIngest"}
          => worker.pc = "idle"
     /\ emitted'.type # "none"
          => \/ ~OnEventInFlight
             \/ /\ worker.pc = "blockEvent"
                /\ emitted'.type = "finalize"
                /\ worker'.block = worker.block]_vars

\* C21 witness: the poller has added an item to the queue while the worker is
\* suspended in onEvent with a block event, and another item already waits.
C21_Witness ==
  /\ step = "PollEnqueue"
  /\ worker.pc = "blockEvent"
  /\ Len(queue) = 2

\* C22: a poll, whether it succeeds or fails, leaves the error count the
\* worker looks its backoff and its fatal threshold up with unchanged, adds
\* nothing to the queue when it fails, and emits no event.
C22_PollLeavesWorkerCountAlone ==
  [][/\ step' \in {"PollDuplicate", "PollLatest", "PollFetchLogs",
                    "PollEnqueue", "PollFail"}
          => /\ consecutiveErrors' = consecutiveErrors
             /\ emitted'.type = "none"
     /\ step' = "PollFail" => queue' = queue]_vars

\* C23 (as claimed): whenever a happy-path ingest has returned,
\* unfinalizedBlocks holds at most finalityBlockCount blocks.
C23_AtMostFinalityBlockCount ==
  step \in IngestReturned => Len(unfinalizedBlocks) <= finalityBlockCount

\* C23 (amended): whenever a happy-path ingest has returned, unfinalizedBlocks
\* holds at most 2 * finalityBlockCount - 1 blocks (none with a
\* finalityBlockCount of 0), and at most finalityBlockCount blocks when the
\* ingest ran the finalization.
C23_AtMostTwiceFinalityBlockCount ==
  /\ step \in IngestReturned
       => Len(unfinalizedBlocks)
            <= (IF finalityBlockCount = 0 THEN 0
                ELSE 2 * finalityBlockCount - 1)
  /\ step = "WorkerFinalizeDone"
       => Len(unfinalizedBlocks) <= finalityBlockCount

\* C23 witness: an ingest without finalization has returned and
\* unfinalizedBlocks holds 2 * finalityBlockCount - 1 blocks, more than
\* finalityBlockCount, after an earlier finalization.
C23_Witness ==
  /\ step = "WorkerIngestDone"
  /\ finalizedBlock # 0
  /\ Len(unfinalizedBlocks) = 2 * finalityBlockCount - 1
  /\ Len(unfinalizedBlocks) > finalityBlockCount

\* C24: isTransactionFilterMatched is false for a transaction without a
\* `to` whenever the filter constrains toAddress by an address or a list.
C24_CreationFailsToAddress ==
  /\ call.fn = "isTransactionFilterMatched"
  /\ call.candidate.to = Missing
  /\ call.filter.toAddress.kind \in {"single", "list"}
  => call.result = FALSE

\* Two hex strings that differ at most in the case of their letters, and a
\* hex string without uppercase letters.
SameLetters(v, w) ==
  \/ v = w
  \/ {v, w} \subseteq {"0xa", "0xA"}
  \/ {v, w} \subseteq {"0xb", "0xB"}

IsLowerCase(v) == v \in {"0xa", "0xb"}

\* C25 (as claimed): an absent constraint matches every candidate, also a
\* missing one; a present constraint matches exactly the present candidates
\* that equal its value, or an element of its list, up to case.
C25_ValueMatchUpToCase ==
  call.fn = "isValueMatched"
  => (call.result
        <=> \/ call.filter.kind = "absent"
            \/ /\ call.candidate # Missing
               /\ \E i \in 1 .. Len(call.filter.values) :
                    SameLetters(call.filter.values[i], call.candidate))

\* C25 (amended): an absent constraint matches every candidate, also a
\* missing one; a present constraint matches exactly the present candidates
\* that equal, up to case, its value or an element of its list written in
\* lowercase: only the candidate is lowercased.
C25_ValueMatchLowercasedCandidate ==
  call.fn = "isValueMatched"
  => (call.result
        <=> \/ call.filter.kind = "absent"
            \/ /\ call.candidate # Missing
               /\ \E i \in 1 .. Len(call.filter.values) :
                    /\ IsLowerCase(call.filter.values[i])
                    /\ SameLetters(call.filter.values[i], call.candidate))

\* C25 witness: a candidate with an uppercase letter has matched the second
\* element of a list constraint.
C25_Witness ==
  /\ call.fn = "isValueMatched"
  /\ call.filter = List(<<"0xb", "0xa">>)
  /\ call.candidate = "0xA"
  /\ call.result = TRUE

\* The five predicates that test the block range, the predicate named fn
\* applied to its inputs, and a filter without its bounds.
RangedPredicates ==
  {"isLogFilterMatched", "isTransactionFilterMatched", "isTraceFilterMatched",
   "isTransferFilterMatched", "isBlockFilterMatched"}

Applied(fn, filter, number, candidate) ==
  CASE fn = "isLogFilterMatched" ->
         isLogFilterMatchedFor(filter, number, candidate)
    [] fn = "isTransactionFilterMatched" ->
         isTransactionFilterMatched(filter, number, candidate)
    [] fn = "isTraceFilterMatched" ->
         isTraceFilterMatched(filter, number, candidate)
    [] fn = "isTransferFilterMatched" ->
         isTransferFilterMatched(filter, number, candidate)
    [] fn = "isBlockFilterMatched" ->
         isBlockFilterMatchedFor(filter, number)

Unbounded(filter) ==
  [filter EXCEPT !.fromBlock = Undefined, !.toBlock = Undefined]

\* C26: each of the five predicates returns what it returns for the filter
\* without bounds when fromBlock <= number <= toBlock (an absent fromBlock
\* counting as 0, an absent toBlock as no bound), and false otherwise.
C26_RangeInclusive ==
  call.fn \in RangedPredicates
  => call.result
       = (/\ \/ call.filter.fromBlock = Undefined
             \/ call.filter.fromBlock <= call.number
          /\ \/ call.filter.toBlock = Undefined
             \/ call.number <= call.filter.toBlock
          /\ Applied(call.fn, Unbounded(call.filter), call.number,
                     call.candidate))

\* C26 witness: a block filter whose fromBlock and toBlock are both the
\* block's number has matched.
C26_Witness ==
  /\ call.fn = "isBlockFilterMatched"
  /\ call.filter.fromBlock = call.number
  /\ call.filter.toBlock = call.number
  /\ call.result = TRUE

\* C27: isLogFilterMatched is false for a log filter whose address is an
\* empty list, and neither fetchBlockEventData nor handleBlock nor buildEvents
\* keeps a log for such a filter.
C27_EmptyAddressListMatchesNothing ==
  /\ call.fn = "isLogFilterMatched" /\ call.filter.address = List(<<>>)
       => call.result = FALSE
  /\ call.fn = "keepLog" /\ call.filter.address = List(<<>>)
       => call.result = [fetchBlockEventData |-> FALSE,
                         handleBlock |-> FALSE, buildEvents |-> FALSE]

\* C27 witness: a log in range was offered to a log filter that constrains
\* nothing but the address, by an empty list, and no place kept it.
C27_Witness ==
  /\ call.fn = "keepLog"
  /\ call.filter.address = List(<<>>)
  /\ call.filter.topic0 = Absent
  /\ call.filter.fromBlock = call.number
  /\ call.result.buildEvents = FALSE

\* C28: the list buildEvents returns is strictly increasing in the
\* checkpoint: sorted, and no two events of it carry the same checkpoint.
C28_EventsStrictlyIncreasing ==
  call.fn = "buildEvents"
  => \A i, j \in DOMAIN call.result :
       i < j => CheckpointLess(call.result[i].checkpoint,
                               call.result[j].checkpoint)

\* C29: every transaction of the ingested block that a transaction filter
\* matches is among the transactions of the block event, and buildEvents
\* makes a transaction event of it for that filter's source.
C29_MatchedTransactionsEmitted ==
  call.fn = "handleBlock"
  => \A i \in DOMAIN call.filter :
       \A t \in SeqToSet(call.candidate.transactions) :
         /\ call.filter[i].type = "transaction"
         /\ isTransactionFilterMatched(call.filter[i].filter, call.number, t)
         => /\ t \in SeqToSet(call.result.data.transactions)
            /\ \E k \in DOMAIN call.result.events :
                 /\ call.result.events[k].type = "transaction"
                 /\ call.result.events[k].sourceIndex = i
                 /\ call.result.events[k].of = t.hash

\* C30: when onEvent is called with a reorg event,
\* unfinalizedChildAddresses is already the recomputation over the surviving
\* unfinalized blocks and the factoryLogsPerBlock entries of the reorged
\* blocks are already deleted.
C30_RecomputedBeforeReorgEvent ==
  emitted.type = "reorg"
  => /\ unfinalizedChildAddresses
          = RecomputeUnfinalizedChildAddresses(unfinalizedBlocks)
     /\ \A h \in SeqToSet(emitted.reorgedBlocks) : factoryLogsPerBlock[h] = {}

\* C31: every block held in unfinalizedBlocks has had its block event
\* accepted by the sink, or is the block whose block event the worker is
\* handing over at this moment: a block whose onEvent call failed is not kept.
C31_HeldBlocksWereAccepted ==
  \A i \in 1 .. Len(unfinalizedBlocks) :
    \/ unfinalizedBlocks[i] \in history.accepted
    \/ /\ worker.pc = "blockEvent"
       /\ worker.block = unfinalizedBlocks[i]

\* C32: whenever the worker has looked up its backoff delay, the delay is one
\* of the entries of ERROR_TIMEOUT (the consecutive-error count indexed it
\* within 0 .. 13), whatever failures of the worker and the poller came before.
C32_BackoffDelayIsAnEntry ==
  worker.pc = "backoff" =>
    \E i \in 1 .. Len(ERROR_TIMEOUT) : worker.duration = ERROR_TIMEOUT[i]

\* C33: every key of factoryLogsPerBlock is the hash of a block that is in
\* unfinalizedBlocks, waits in the queue, or is the item the worker or the
\* poller holds at this moment: no entry stays behind for another block.
C33_FactoryLogsKeysAreHeld ==
  \A h \in Blocks :
    factoryLogsPerBlock[h] # {} =>
      \/ h \in SeqToSet(unfinalizedBlocks)
      \/ h \in SeqToSet(queue)
      \/ worker.pc # "idle" /\ h = worker.block
      \/ poller.pc # "idle" /\ h = poller.block

\* C34: at every moment the number of items waiting in the queue is at most
\* MAX_QUEUED_BLOCKS.
C34_QueueAtMostMaxQueuedBlocks == Len(queue) <= MAX_QUEUED_BLOCKS

\* The worker returned in the step that led here, from the reorg path (after
\* handleReorg) or from its catch block (after the wait, or at once when the
\* instance is killed).
ReturnedFromReorgOrError ==
  \/ step \in {"WorkerReorgDone", "WorkerBackoffDone"}
  \/ /\ step \in {"WorkerSinkFail", "WorkerGapFail", "WorkerReorgWalkFail",
                   "WorkerReorg", "WorkerReorgWalk"}
     /\ worker.pc = "idle"

\* C35: when the worker returns from the reorg path or from the error path
\* the queue is empty.
C35_QueueEmptyAfterReorgOrError == ReturnedFromReorgOrError => queue = <<>>

\* C36: a fetch of event data that ends in an error (here the fetches of a
\* gap-fill, of which one request failed) adds nothing to the queue, emits no
\* event and leaves factoryLogsPerBlock and the chain state as they were.
C36_FailedFetchChangesNothing ==
  [][step' = "WorkerGapFail" =>
       /\ emitted'.type = "none"
       /\ UNCHANGED <<queue, factoryLogsPerBlock, unfinalizedBlocks,
                      finalizedBlock, finalizedChildAddresses,
                      unfinalizedChildAddresses>>]_vars

\* C37: fetchBlockEventData requests the logs exactly when the block's
\* logsBloom is all-zero or some configured log filter may be in the bloom;
\* when it requests them, a non-zero bloom with no log returned, or a log of
\* another block, is an error.
C37_LogsRequestedIffZeroOrInBloom ==
  call.fn = "fetchLogs" =>
    LET block == call.number
        inBloom == \E filter \in call.filter :
                     isFilterInBloom(block.logsBloom, filter)
        inconsistent ==
          \/ block.logsBloom # {} /\ call.candidate = {}
          \/ \E log \in call.candidate : log.blockHash # block.hash
    IN /\ call.result.requested <=> (block.logsBloom = {} \/ inBloom)
       /\ block.logsBloom = {} => call.result.requested
       /\ (call.result.requested /\ inconsistent) => call.result.error

\* An all-zero bloom that no filter is in, and the logs were requested; the
\* node answered with a log of another block, which is an error.
C37_Witness ==
  /\ call.fn = "fetchLogs"
  /\ call.number.logsBloom = {}
  /\ call.filter # {}
  /\ \A filter \in call.filter : ~isFilterInBloom({}, filter)
  /\ call.result.requested
  /\ call.result.error

\* The place of an event of buildEvents among the events of one transaction:
\* transaction events, then log events, then trace events (of trace and
\* transfer filters).
RankInTransaction(event) ==
  CASE event.type = "transaction" -> 1
    [] event.type = "log" -> 2
    [] OTHER -> 3

\* C38: in the list buildEvents returns for a block, every block event stands
\* after every transaction, log and trace event, and of two such events with
\* the same transactionIndex the transaction event stands before the log
\* event and the log event before the trace event.
C38_BlockEventsLastAndRanksInTransaction ==
  call.fn = "buildEvents"
  => \A i, j \in DOMAIN call.result :
       LET a == call.result[i]
           b == call.result[j]
       IN /\ (a.type # "block" /\ b.type = "block") => i < j
          /\ (/\ a.type # "block"
              /\ b.type # "block"
              /\ a.checkpoint[4] = b.checkpoint[4]
              /\ RankInTransaction(a) < RankInTransaction(b)) => i < j

\* buildEvents returned a transaction, a log and a trace event of the same
\* transaction and a block event, for sources configured in another order.
C38_Witness ==
  /\ call.fn = "buildEvents"
  /\ call.filter = SourcesOfEveryKind
  /\ \E i, j, k, l \in DOMAIN call.result :
       /\ call.result[i].type = "transaction"
       /\ call.result[j].type = "log"
       /\ call.result[k].type = "trace"
       /\ call.result[l].type = "block"
       /\ call.result[i].checkpoint[4] = call.result[j].checkpoint[4]
       /\ call.result[j].checkpoint[4] = call.result[k].checkpoint[4]
       /\ i < j /\ j < k /\ k < l

\* The local head has the hash of the remote's latest block and nothing
\* waits in the queue.
CaughtUp ==
  /\ getLatestUnfinalizedBlock \in tips
  /\ queue = <<>>

\* C39: once the remote chain has stopped changing, with fair scheduling and
\* without failures, the local head eventually has the remote's latest
\* block's hash and the queue is empty, and it stays so.
C39_EventuallyCaughtUp == <>[]CaughtUp

\* The instance has caught up with a remote head more than MAX_QUEUED_BLOCKS
\* ahead of where it started: the last block event was the remote's latest
\* block, and blocks were finalized on the way.
C39_Witness ==
  /\ CaughtUp
  /\ Num(getLatestUnfinalizedBlock) > MAX_QUEUED_BLOCKS + 1
  /\ lastBlockEvent.block \in tips
  /\ finalizedBlock # 0

C10_DuplicateIsNoOp ==
  [][(WorkerReady /\ Head(queue) = getLatestUnfinalizedBlock)
     => /\ emitted'.type = "none"
        /\ queue' = Tail(queue)
        /\ UNCHANGED <<finalizedBlock, unfinalizedBlocks,
                       finalizedChildAddresses, unfinalizedChildAddresses,
                       consecutiveErrors, factoryLogsPerBlock, fatalErrors>>
    ]_vars

\* C10 witness: the worker has skipped an item while blocks were unfinalized
\* and more items waited behind it.
C10_Witness ==
  /\ step = "WorkerDuplicate"
  /\ Len(unfinalizedBlocks) > 0
  /\ Len(queue) > 0

====
